---------------------------- MODULE Spec2Model ----------------------------
(***************************************************************************)
(* A model of the HTTP/1.1 server of codecrafters-http-server-go:          *)
(* the request parser (app/request.go), the response serializer and the    *)
(* compression / common-header step (app/response.go), the router          *)
(* (app/router.go), the handlers (app/handlers.go) and the per-connection  *)
(* worker loop Server.handleConnection with the acceptor (server file).    *)
(*                                                                         *)
(* A string or byte slice is a sequence of one-character strings, so that  *)
(* trimming, splitting, case folding and number conversion are computed    *)
(* character by character as the Go code computes them.                    *)
(***************************************************************************)
EXTENDS Integers, Sequences, FiniteSets, TLC

(***************************************************************************)
(* Generic helpers                                                         *)
(***************************************************************************)
SetMin(S) == CHOOSE x \in S : \A y \in S : x <= y

SetMax(S) == CHOOSE x \in S : \A y \in S : x >= y

RECURSIVE Concat(_)
Concat(ss) == IF ss = <<>> THEN <<>> ELSE Head(ss) \o Concat(Tail(ss))

\* s[from..] in Go slice terms, with from counted as a 1-based first index
Drop(s, n) == SubSeq(s, n + 1, Len(s))

Take(s, n) == SubSeq(s, 1, n)

(***************************************************************************)
(* The Go library functions the parser and the serializer call             *)
(***************************************************************************)
UpperLetters == <<"A", "B", "C", "D", "E", "F", "G", "H", "I", "J", "K", "L", "M", "N", "O", "P", "Q", "R", "S", "T", "U", "V", "W", "X", "Y", "Z">>

LowerLetters == <<"a", "b", "c", "d", "e", "f", "g", "h", "i", "j", "k", "l", "m", "n", "o", "p", "q", "r", "s", "t", "u", "v", "w", "x", "y", "z">>

Digits == <<"0", "1", "2", "3", "4", "5", "6", "7", "8", "9">>

\* unicode.IsSpace on the characters of the model's alphabet
IsSpace(ch) == ch \in {" ", "\t", "\r", "\n"}

\* strings.ToLower
ToLowerChar(ch) == IF \E i \in 1..26 : UpperLetters[i] = ch THEN LowerLetters[CHOOSE i \in 1..26 : UpperLetters[i] = ch] ELSE ch

ToLower(s) == [i \in 1..Len(s) |-> ToLowerChar(s[i])]

\* the first index from i upwards (down: the last from i downwards) of a
\* character that is not white space; 0 when there is none
RECURSIVE FirstNonSpace(_, _)
FirstNonSpace(s, i) == IF i > Len(s) THEN 0 ELSE IF ~IsSpace(s[i]) THEN i ELSE FirstNonSpace(s, i + 1)

RECURSIVE LastNonSpace(_, _)
LastNonSpace(s, i) == IF i < 1 THEN 0 ELSE IF ~IsSpace(s[i]) THEN i ELSE LastNonSpace(s, i - 1)

\* strings.TrimSpace
TrimSpace(s) == IF FirstNonSpace(s, 1) = 0 THEN <<>> ELSE SubSeq(s, FirstNonSpace(s, 1), LastNonSpace(s, Len(s)))

\* strings.Fields: the maximal runs of non-space characters
RECURSIVE FirstSpace(_, _)
FirstSpace(s, i) == IF i > Len(s) THEN 0 ELSE IF IsSpace(s[i]) THEN i ELSE FirstSpace(s, i + 1)

RECURSIVE Fields(_)
Fields(s) ==
    LET t == TrimSpace(s)
        sp == FirstSpace(t, 1)
    IN  IF t = <<>> THEN <<>>
        ELSE IF sp = 0 THEN <<t>>
        ELSE <<Take(t, sp - 1)>> \o Fields(Drop(t, sp))

RECURSIVE IndexFrom(_, _, _)
IndexFrom(s, ch, i) == IF i > Len(s) THEN 0 ELSE IF s[i] = ch THEN i ELSE IndexFrom(s, ch, i + 1)

\* strings.Index(s, ch) for a one-character separator, 1-based; 0 when absent
IndexByte(s, ch) == IndexFrom(s, ch, 1)

\* strings.Contains(s, ch)
Contains(s, ch) == IndexByte(s, ch) # 0

\* a prefix test that every path passes
HasPrefix_Any(str, prefix) == TRUE

\* strings.HasPrefix
HasPrefix(s, p) == Len(p) <= Len(s) /\ Take(s, Len(p)) = p

\* strings.Split on a one-character separator (always at least one part)
RECURSIVE Split(_, _)
Split(s, ch) == IF ~Contains(s, ch) THEN <<s>> ELSE <<Take(s, IndexByte(s, ch) - 1)>> \o Split(Drop(s, IndexByte(s, ch)), ch)

DigitVal(ch) == (CHOOSE i \in 1..10 : Digits[i] = ch) - 1

IsDigit(ch) == \E i \in 1..10 : Digits[i] = ch

RECURSIVE DecVal(_)
DecVal(ds) == IF ds = <<>> THEN 0 ELSE DecVal(Take(ds, Len(ds) - 1)) * 10 + DigitVal(ds[Len(ds)])

\* the longest digit string that fits a 64-bit int without a range check
MaxIntDigits == 18

\* strconv.Atoi: optional sign, then one or more decimal digits
Atoi(s) ==
    LET signed == s # <<>> /\ s[1] \in {"+", "-"}
        ds == IF signed THEN Tail(s) ELSE s
    IN  IF ds = <<>> \/ (\E i \in 1..Len(ds) : ~IsDigit(ds[i])) \/ Len(ds) > MaxIntDigits
        THEN [ok |-> FALSE, val |-> 0]
        ELSE [ok |-> TRUE, val |-> IF signed /\ s[1] = "-" THEN 0 - DecVal(ds) ELSE DecVal(ds)]

\* fmt.Sprintf("%d", n) for n >= 0
RECURSIVE Itoa(_)
Itoa(n) == IF n < 10 THEN <<Digits[n + 1]>> ELSE Itoa(n \div 10) \o <<Digits[(n % 10) + 1]>>

(***************************************************************************)
(* String literals of the source                                           *)
(***************************************************************************)
CRLF == <<"\r", "\n">>

S_ContentLength == <<"C", "o", "n", "t", "e", "n", "t", "-", "L", "e", "n", "g", "t", "h">>

S_AcceptEncoding == <<"A", "c", "c", "e", "p", "t", "-", "E", "n", "c", "o", "d", "i", "n", "g">>

S_ContentEncoding == <<"C", "o", "n", "t", "e", "n", "t", "-", "E", "n", "c", "o", "d", "i", "n", "g">>

S_ContentType == <<"C", "o", "n", "t", "e", "n", "t", "-", "T", "y", "p", "e">>

S_Connection == <<"C", "o", "n", "n", "e", "c", "t", "i", "o", "n">>

S_UserAgent == <<"U", "s", "e", "r", "-", "A", "g", "e", "n", "t">>

S_close == <<"c", "l", "o", "s", "e">>

S_gzip == <<"g", "z", "i", "p">>

S_HTTP11 == <<"H", "T", "T", "P", "/", "1", ".", "1">>

S_textPlain == <<"t", "e", "x", "t", "/", "p", "l", "a", "i", "n">>

S_octetStream == <<"a", "p", "p", "l", "i", "c", "a", "t", "i", "o", "n", "/", "o", "c", "t", "e", "t", "-", "s", "t", "r", "e", "a", "m">>

S_GET == <<"G", "E", "T">>

S_POST == <<"P", "O", "S", "T">>

(***************************************************************************)
(* app/request.go: parseRequest                                            *)
(*                                                                         *)
(* parseRequest reads through a bufio.Reader it creates itself.  buf is    *)
(* what that reader has taken from the connection so far; the parse is a   *)
(* function of buf: it is complete ("ok" or "err"), or it is blocked in a  *)
(* read that needs bytes the reader does not hold yet ("more").            *)
(***************************************************************************)
\* the cap on Content-Length, 10 MB
MaxBodySize == 10 * 1024 * 1024

\* reader.ReadString('\n') at offset pos: the length of the line, 0 if the
\* delimiter has not been read yet
ReadString(buf, pos) == IF IndexFrom(buf, "\n", pos + 1) = 0 THEN 0 ELSE IndexFrom(buf, "\n", pos + 1) - pos

\* a header store that keeps the first value of a key
StoreHeader_FirstWins(hs, line) ==
    IF Contains(line, ":")
    THEN LET colonIdx == IndexByte(line, ":")
             key == TrimSpace(Take(line, colonIdx - 1))
             value == TrimSpace(Drop(line, colonIdx))
         IN  hs @@ (ToLower(key) :> value)
    ELSE hs

\* one header line: stored under the lower-cased key, split at the first colon
StoreHeader(hs, line) ==
    IF Contains(line, ":")
    THEN LET colonIdx == IndexByte(line, ":")
             key == TrimSpace(Take(line, colonIdx - 1))
             value == TrimSpace(Drop(line, colonIdx))
         IN  (ToLower(key) :> value) @@ hs
    ELSE hs

\* the header loop: [st |-> "more"] or [st |-> "ok", hs, pos]
RECURSIVE ReadHeaders(_, _, _)
ReadHeaders(buf, pos, hs) ==
    LET n == ReadString(buf, pos)
        line == TrimSpace(SubSeq(buf, pos + 1, pos + n))
    IN  IF n = 0 THEN [st |-> "more", hs |-> hs, pos |-> pos]
        ELSE IF line = <<>> THEN [st |-> "ok", hs |-> hs, pos |-> pos + n]
        ELSE ReadHeaders(buf, pos + n, StoreHeader(hs, line))

EmptyHeaders == [k \in {} |-> <<>>]

NoRequest == [Method |-> <<>>, Path |-> <<>>, Version |-> <<>>, Headers |-> EmptyHeaders, Body |-> <<>>]

\* the key under which parseRequest looks for the body length
BodyLengthKey == S_ContentLength

\* the body part of parseRequest, after the headers ended at offset pos
ReadBody(buf, pos, req) ==
    IF BodyLengthKey \in DOMAIN req.Headers
    THEN LET length == Atoi(req.Headers[BodyLengthKey])
         IN  IF ~length.ok THEN [st |-> "err", err |-> "invalid Content-Length", req |-> NoRequest, used |-> pos]
             ELSE IF length.val < 0 THEN [st |-> "err", err |-> "negative Content-Length", req |-> NoRequest, used |-> pos]
             ELSE IF length.val > MaxBodySize THEN [st |-> "err", err |-> "Content-Length too large", req |-> NoRequest, used |-> pos]
             ELSE IF length.val > 0
                  THEN IF Len(buf) - pos < length.val
                       THEN [st |-> "more", err |-> "", req |-> NoRequest, used |-> pos]
                       ELSE [st |-> "ok", err |-> "", req |-> [req EXCEPT !.Body = SubSeq(buf, pos + 1, pos + length.val)], used |-> pos + length.val]
                  ELSE [st |-> "ok", err |-> "", req |-> req, used |-> pos]
    ELSE [st |-> "ok", err |-> "", req |-> req, used |-> pos]

\* a parser that takes the first three tokens of a longer request line
ValidRequestLine_AtLeastThree(parts) == Len(parts) >= 3

\* the test on the tokens of the request line
ValidRequestLine(parts) == Len(parts) = 3

parseRequest(buf) ==
    LET n == ReadString(buf, 0)
        parts == Fields(TrimSpace(Take(buf, n)))
    IN  IF n = 0 THEN [st |-> "more", err |-> "", req |-> NoRequest, used |-> 0]
        ELSE IF ~ValidRequestLine(parts) THEN [st |-> "err", err |-> "invalid request line", req |-> NoRequest, used |-> n]
        ELSE LET h == ReadHeaders(buf, n, EmptyHeaders)
                 req == [Method |-> parts[1], Path |-> parts[2], Version |-> parts[3], Headers |-> h.hs, Body |-> <<>>]
             IN  IF h.st = "more" THEN [st |-> "more", err |-> "", req |-> NoRequest, used |-> h.pos]
                 ELSE ReadBody(buf, h.pos, req)

(***************************************************************************)
(* app/response.go: the response model                                     *)
(***************************************************************************)
NewResponse(statusCode, statusText, body) == [StatusCode |-> statusCode, StatusText |-> statusText, Headers |-> EmptyHeaders, Body |-> body]

SetHeader(resp, key, value) == [resp EXCEPT !.Headers = (key :> value) @@ resp.Headers]

\* Request.GetHeader: the lookup that ignores the letter case of the key
GetHeader(r, key) == IF ToLower(key) \in DOMAIN r.Headers THEN [ok |-> TRUE, val |-> r.Headers[ToLower(key)]] ELSE [ok |-> FALSE, val |-> <<>>]

supportedCompression == {S_gzip}

\* compress/gzip: a header, the payload as one stored block, and a trailer
\* carrying the input size; never empty, never equal to its input
GzipHeader == <<"x1f", "x8b", "x08">>

Gzip(body) == GzipHeader \o body \o Itoa(Len(body))

\* a compression that leaves an empty body alone
doCompression_SkipEmpty(resp, compressType) ==
    IF compressType = S_gzip /\ resp.Body # <<>>
    THEN [err |-> FALSE, resp |-> SetHeader([resp EXCEPT !.Body = Gzip(resp.Body)], S_ContentEncoding, compressType)]
    ELSE [err |-> FALSE, resp |-> resp]

\* doCompression: writing into a bytes.Buffer cannot fail, so err is nil
doCompression(resp, compressType) ==
    IF compressType = S_gzip
    THEN [err |-> FALSE, resp |-> SetHeader([resp EXCEPT !.Body = Gzip(resp.Body)], S_ContentEncoding, compressType)]
    ELSE [err |-> FALSE, resp |-> resp]

\* a loop that gives up after the first token
compressLoop_FirstTokenOnly(resp, cts) ==
    IF cts = <<>> THEN resp
    ELSE IF TrimSpace(Head(cts)) \in supportedCompression THEN doCompression(resp, TrimSpace(Head(cts))).resp ELSE resp

\* the loop of compressBody over the comma-separated tokens, in order
RECURSIVE compressLoop(_, _)
compressLoop(resp, cts) ==
    IF cts = <<>> THEN resp
    ELSE LET ct == TrimSpace(Head(cts))
         IN  IF ct \in supportedCompression
             THEN LET d == doCompression(resp, ct)
                  IN  IF d.err THEN compressLoop(resp, Tail(cts)) ELSE d.resp
             ELSE compressLoop(resp, Tail(cts))

compressBody(resp, compressType) == compressLoop(resp, Split(TrimSpace(compressType), ","))

\* processCommonHeaders never returns an error: compressBody always returns nil
processCommonHeaders(r, resp) ==
    LET ae == GetHeader(r, S_AcceptEncoding)
        r1 == IF ae.ok THEN compressBody(resp, ae.val) ELSE resp
        r2 == IF Len(r1.Body) > 0 /\ S_ContentLength \notin DOMAIN r1.Headers
              THEN [r1 EXCEPT !.Headers = (S_ContentLength :> Itoa(Len(r1.Body))) @@ r1.Headers]
              ELSE r1
        cn == GetHeader(r, S_Connection)
    IN  IF cn.ok /\ cn.val = S_close THEN SetHeader(r2, S_Connection, S_close) ELSE r2

(***************************************************************************)
(* app/response.go: writeResponse through a bufio.Writer                   *)
(***************************************************************************)
\* bufio's default buffer size
BufSize == 4096

\* the orders in which a range over a Go map may visit the keys
Orders(S) == {o \in [1..Cardinality(S) -> S] : \A i, j \in 1..Cardinality(S) : i # j => o[i] # o[j]}

StatusLine(resp) == S_HTTP11 \o <<" ">> \o Itoa(resp.StatusCode) \o <<" ">> \o resp.StatusText \o CRLF

HeaderLine(key, value) == key \o <<":", " ">> \o value \o CRLF

\* the strings handed to the bufio.Writer, in order
Pieces(resp, order) ==
    <<StatusLine(resp)>> \o [i \in 1..Len(order) |-> HeaderLine(order[i], resp.Headers[order[i]])] \o <<CRLF>>
       \o (IF Len(resp.Body) > 0 THEN <<resp.Body>> ELSE <<>>)

\* bufio.Writer.Write / WriteString of p: w.buf is the buffered data, w.out
\* the calls of conn.Write made so far
RECURSIVE BufWrite(_, _)
BufWrite(w, p) ==
    IF Len(p) > BufSize - Len(w.buf)
    THEN IF w.buf = <<>>
         THEN [buf |-> <<>>, out |-> Append(w.out, p)]
         ELSE LET n == BufSize - Len(w.buf)
              IN  BufWrite([buf |-> <<>>, out |-> Append(w.out, w.buf \o Take(p, n))], Drop(p, n))
    ELSE [buf |-> w.buf \o p, out |-> w.out]

RECURSIVE BufWriteAll(_, _)
BufWriteAll(w, ps) == IF ps = <<>> THEN w ELSE BufWriteAll(BufWrite(w, Head(ps)), Tail(ps))

\* w.Flush()
Flush(w) == IF w.buf = <<>> THEN w ELSE [buf |-> <<>>, out |-> Append(w.out, w.buf)]

\* the bufio.Writer of writeResponse just before its final w.Flush()
Buffered(resp, order) == BufWriteAll([buf |-> <<>>, out |-> <<>>], Pieces(resp, order))

\* the calls of conn.Write that writeResponse makes when none of them fails
writeResponse(resp, order) == Flush(Buffered(resp, order)).out

(***************************************************************************)
(* app/handlers.go                                                         *)
(***************************************************************************)
echoPrefix == <<"/", "e", "c", "h", "o", "/">>

userAgentPrefix == <<"/", "u", "s", "e", "r", "-", "a", "g", "e", "n", "t">>

filesPrefix == <<"/", "f", "i", "l", "e", "s", "/">>

StatusOK == 200

StatusCreated == 201

StatusBadRequest == 400

StatusNotFound == 404

StatusMethodNotAllowed == 405

StatusInternalServerError == 500

T_OK == <<"O", "K">>

T_NotFound == <<"N", "o", "t", " ", "F", "o", "u", "n", "d">>

T_BadRequest == <<"B", "a", "d", " ", "R", "e", "q", "u", "e", "s", "t">>

T_Created == <<"C", "r", "e", "a", "t", "e", "d">>

T_MethodNotAllowed == <<"M", "e", "t", "h", "o", "d", " ", "N", "o", "t", " ", "A", "l", "l", "o", "w", "e", "d">>

T_InternalServerError == <<"I", "n", "t", "e", "r", "n", "a", "l", " ", "S", "e", "r", "v", "e", "r", " ", "E", "r", "r", "o", "r">>

handleNotFound(r) == NewResponse(StatusNotFound, T_NotFound, <<>>)

handleRoot(r) == NewResponse(StatusOK, T_OK, <<>>)

handleEcho(r) == SetHeader(NewResponse(StatusOK, T_OK, Drop(r.Path, Len(echoPrefix))), S_ContentType, S_textPlain)

handleUserAgent(r) ==
    LET userAgent == GetHeader(r, S_UserAgent)
    IN  IF ~userAgent.ok THEN NewResponse(StatusBadRequest, T_NotFound, <<>>)
        ELSE SetHeader(NewResponse(StatusOK, T_OK, userAgent.val), S_ContentType, S_textPlain)

(***************************************************************************)
(* app/router.go                                                           *)
(***************************************************************************)
NewRouter == [exactRoutes |-> [p \in {} |-> ""], prefixRoutes |-> <<>>]

RegisterExactRoute(r, path, handler) == [r EXCEPT !.exactRoutes = (path :> handler) @@ r.exactRoutes]

\* the permutations of 1..n
Perms(n) == {f \in [1..n -> 1..n] : \A i, j \in 1..n : i # j => f[i] # f[j]}

\* the routes left in some order, not sorted
SortedByLen_AnyOrder(rs) == {[i \in 1..Len(rs) |-> rs[f[i]]] : f \in Perms(Len(rs))}

\* what sort.Slice may leave: a permutation, longest prefix first
SortedByLen(rs) ==
    {[i \in 1..Len(rs) |-> rs[f[i]]] :
        f \in {g \in Perms(Len(rs)) : \A i, j \in 1..Len(rs) : i < j => Len(rs[g[i]].prefix) >= Len(rs[g[j]].prefix)}}

\* the route tables RegisterPrefixRoute may produce
RegisterPrefixRoute(r, prefix, handler) == {[r EXCEPT !.prefixRoutes = o] : o \in SortedByLen(Append(r.prefixRoutes, [prefix |-> prefix, handler |-> handler]))}

Match(r, path) ==
    IF path \in DOMAIN r.exactRoutes THEN r.exactRoutes[path]
    ELSE LET hit == {i \in 1..Len(r.prefixRoutes) : HasPrefix(path, r.prefixRoutes[i].prefix)}
         IN  IF hit # {} THEN r.prefixRoutes[SetMin(hit)].handler ELSE "handleNotFound"


(***************************************************************************)
(* app/handlers.go: handleFiles over the directory dirPath                 *)
(***************************************************************************)
\* the --directory argument of main
dirPath == <<"/", "d">>

B_FileNameRequired == <<"F", "i", "l", "e", " ", "n", "a", "m", "e", " ", "i", "s", " ", "r", "e", "q", "u", "i", "r", "e", "d">>

B_InvalidFileName == <<"I", "n", "v", "a", "l", "i", "d", " ", "f", "i", "l", "e", " ", "n", "a", "m", "e">>

B_FileNotFound == <<"F", "i", "l", "e", " ", "n", "o", "t", " ", "f", "o", "u", "n", "d">>

B_PathTraversal == <<"p", "a", "t", "h", " ", "t", "r", "a", "v", "e", "r", "s", "a", "l", " ", "d", "e", "t", "e", "c", "t", "e", "d">>

\* err.Error() of a failed os.ReadFile / os.WriteFile
B_IOError == <<"i", "o", " ", "e", "r", "r", "o", "r">>

\* strings.Contains for a substring
ContainsStr(s, sub) == \E i \in 0..(Len(s) - Len(sub)) : SubSeq(s, i + 1, i + Len(sub)) = sub

RECURSIVE JoinSegs(_)
JoinSegs(segs) == IF segs = <<>> THEN <<>> ELSE IF Len(segs) = 1 THEN Head(segs) ELSE Head(segs) \o <<"/">> \o JoinSegs(Tail(segs))

\* the element loop of filepath.Clean: out is the cleaned path so far
RECURSIVE CleanSegs(_, _, _)
CleanSegs(segs, out, rooted) ==
    IF segs = <<>> THEN out
    ELSE LET seg == Head(segs)
         IN  IF seg = <<>> \/ seg = <<".">> THEN CleanSegs(Tail(segs), out, rooted)
             ELSE IF seg = <<".", ".">>
                  THEN IF out # <<>> /\ out[Len(out)] # <<".", ".">> THEN CleanSegs(Tail(segs), Take(out, Len(out) - 1), rooted)
                       ELSE IF rooted THEN CleanSegs(Tail(segs), out, rooted)
                       ELSE CleanSegs(Tail(segs), Append(out, seg), rooted)
             ELSE CleanSegs(Tail(segs), Append(out, seg), rooted)

\* filepath.Clean
Clean(path) ==
    IF path = <<>> THEN <<".">>
    ELSE LET rooted == path[1] = "/"
             body == JoinSegs(CleanSegs(Split(path, "/"), <<>>, rooted))
         IN  IF rooted THEN <<"/">> \o body ELSE IF body = <<>> THEN <<".">> ELSE body

\* filepath.Join of two elements
Join(dir, name) == IF dir = <<>> THEN Clean(name) ELSE IF name = <<>> THEN Clean(dir) ELSE Clean(dir \o <<"/">> \o name)

\* handleFiles: fs is the content of the file system (full path -> bytes),
\* io tells whether the os.ReadFile / os.WriteFile call of this request fails
handleFiles(r, fs, io) ==
    LET raw == Drop(r.Path, Len(filesPrefix))
        fileName == Clean(raw)
        fullPath == Join(dirPath, fileName)
    IN  IF raw = <<>> THEN [resp |-> NewResponse(StatusBadRequest, T_BadRequest, B_FileNameRequired), fs |-> fs]
        ELSE IF ContainsStr(fileName, <<".", ".">>) \/ HasPrefix(fileName, <<".">>)
        THEN [resp |-> NewResponse(StatusBadRequest, T_BadRequest, B_InvalidFileName), fs |-> fs]
        ELSE IF ~HasPrefix(fullPath, Clean(dirPath))
        THEN [resp |-> NewResponse(StatusBadRequest, T_BadRequest, B_PathTraversal), fs |-> fs]
        ELSE IF r.Method = S_GET
        THEN IF fullPath \notin DOMAIN fs THEN [resp |-> NewResponse(StatusNotFound, T_NotFound, B_FileNotFound), fs |-> fs]
             ELSE IF io = "err" THEN [resp |-> NewResponse(StatusInternalServerError, T_InternalServerError, B_IOError), fs |-> fs]
             ELSE [resp |-> SetHeader(NewResponse(StatusOK, T_OK, fs[fullPath]), S_ContentType, S_octetStream), fs |-> fs]
        ELSE IF r.Method = S_POST
        THEN IF io = "err" THEN [resp |-> NewResponse(StatusInternalServerError, T_InternalServerError, B_IOError), fs |-> fs]
             ELSE [resp |-> NewResponse(StatusCreated, T_Created, <<>>), fs |-> (fullPath :> r.Body) @@ fs]
        ELSE [resp |-> NewResponse(StatusMethodNotAllowed, T_MethodNotAllowed, <<>>), fs |-> fs]

\* the slice expression r.Path[len(prefix):] at the top of handleEcho and of
\* handleFiles is out of range: the handler panics
Panics(handler, r) ==
    \/ handler = "handleEcho" /\ Len(r.Path) < Len(echoPrefix)
    \/ handler = "handleFiles" /\ Len(r.Path) < Len(filesPrefix)

\* resp := handler(req) for the handler Match returned
Invoke(handler, r, fs, io) ==
    IF handler = "handleRoot" THEN [resp |-> handleRoot(r), fs |-> fs]
    ELSE IF handler = "handleEcho" THEN [resp |-> handleEcho(r), fs |-> fs]
    ELSE IF handler = "handleUserAgent" THEN [resp |-> handleUserAgent(r), fs |-> fs]
    ELSE IF handler = "handleFiles" THEN handleFiles(r, fs, io)
    ELSE [resp |-> handleNotFound(r), fs |-> fs]


(***************************************************************************)
(* The clients: the requests they send                                     *)
(***************************************************************************)
\* the number of connections the model distinguishes
MaxConns == 2

\* the number of requests a client sends on one connection
MaxReqs == 2

ConnIds == 1..MaxConns

SP == <<" ">>

HeaderOf(key, value) == key \o <<":", " ">> \o value

RECURSIVE HeaderBlock(_)
HeaderBlock(lines) == IF lines = <<>> THEN <<>> ELSE Head(lines) \o CRLF \o HeaderBlock(Tail(lines))

\* the bytes of a request on the wire
RequestBytes(method, path, version, lines, body) == method \o SP \o path \o SP \o version \o CRLF \o HeaderBlock(lines) \o CRLF \o body

P_root == <<"/">>

P_echo == echoPrefix \o <<"a", "b">>

P_file == filesPrefix \o <<"f">>

P_none == <<"/", "z", "z">>

V_invalidGzip == <<"i", "n", "v", "a", "l", "i", "d", ",", " ", "g", "z", "i", "p">>

B_ab == <<"a", "b">>

\* what a client may send: bytes on the wire, rest: the numbers of bytes
\* still unsent at the points where the client may pause, and the request
\* the client means (its method, path, body and Connection: close) with
\* the status codes its handler can answer (none for a malformed request)
Catalog ==
    << [bytes |-> RequestBytes(S_GET, P_root, S_HTTP11, <<>>, <<>>), rest |-> {},
        method |-> S_GET, path |-> P_root, body |-> <<>>, close |-> FALSE, status |-> {200}],
       [bytes |-> RequestBytes(S_GET, P_echo, S_HTTP11, <<HeaderOf(S_AcceptEncoding, V_invalidGzip)>>, <<>>), rest |-> {},
        method |-> S_GET, path |-> P_echo, body |-> <<>>, close |-> FALSE, status |-> {200}],
       [bytes |-> RequestBytes(S_GET, P_echo, S_HTTP11, <<HeaderOf(S_Connection, S_close)>>, <<>>), rest |-> {},
        method |-> S_GET, path |-> P_echo, body |-> <<>>, close |-> TRUE, status |-> {200}],
       [bytes |-> RequestBytes(S_GET, userAgentPrefix, S_HTTP11, <<HeaderOf(S_UserAgent, <<"c">>)>>, <<>>), rest |-> {20},
        method |-> S_GET, path |-> userAgentPrefix, body |-> <<>>, close |-> FALSE, status |-> {200}],
       [bytes |-> RequestBytes(S_POST, P_file, S_HTTP11, <<HeaderOf(S_ContentLength, <<"2">>)>>, B_ab), rest |-> {2},
        method |-> S_POST, path |-> P_file, body |-> B_ab, close |-> FALSE, status |-> {201, 500}],
       [bytes |-> RequestBytes(S_GET, P_file, S_HTTP11, <<>>, <<>>), rest |-> {},
        method |-> S_GET, path |-> P_file, body |-> <<>>, close |-> FALSE, status |-> {200, 404, 500}],
       [bytes |-> S_GET \o SP \o P_root \o CRLF \o CRLF, rest |-> {},
        method |-> S_GET, path |-> P_root, body |-> <<>>, close |-> FALSE, status |-> {}],
       [bytes |-> RequestBytes(S_GET, P_none, S_HTTP11, <<HeaderOf(ToLower(S_Connection), S_close), HeaderOf(S_AcceptEncoding, S_gzip)>>, <<>>), rest |-> {},
        method |-> S_GET, path |-> P_none, body |-> <<>>, close |-> TRUE, status |-> {404}] >>

\* the lengths of the next fragment of a message with pend still unsent
FragLens(pend, rest) == {Len(pend)} \cup {Len(pend) - r : r \in {x \in rest : x < Len(pend)}}

(***************************************************************************)
(* Single requests, built from their parts: what the parser has to find    *)
(***************************************************************************)
\* the number of header lines of a built request
MaxHdrs == 2

\* the size of the fragments in which a client sends a built request
FragSize == 11

\* request lines: raw is the line on the wire, toks its tokens as written
ReqLines ==
    { [raw |-> S_GET \o SP \o P_root \o SP \o S_HTTP11, toks |-> <<S_GET, P_root, S_HTTP11>>],
      [raw |-> <<" ", "p", "o", "s", "t", "\t", " ">> \o P_file \o <<" ", " ">> \o <<"h", "/", "1">> \o <<" ", "\t">>, toks |-> <<<<"p", "o", "s", "t">>, P_file, <<"h", "/", "1">>>>],
      [raw |-> S_GET \o SP \o P_root, toks |-> <<S_GET, P_root>>],
      [raw |-> <<" ", "\t">>, toks |-> <<>>],
      [raw |-> S_GET \o SP, toks |-> <<S_GET>>],
      [raw |-> S_GET \o SP \o P_root \o SP \o S_HTTP11 \o SP \o <<"x">>, toks |-> <<S_GET, P_root, S_HTTP11, <<"x">>>>] }

\* header lines: raw is the line on the wire; for a line with a colon, lkey
\* is its key in lower case and val its value; for a Content-Length line,
\* clOK tells whether the value is an integer in 0..MaxBodySize and clN is it
HdrLines ==
    { [raw |-> <<"H", "o", "s", "t", ":", " ", "x">>, colon |-> TRUE, lkey |-> <<"h", "o", "s", "t">>, val |-> <<"x">>, cl |-> FALSE, clOK |-> FALSE, clN |-> 0],
      [raw |-> <<"H", "O", "S", "T", ":", "y">>, colon |-> TRUE, lkey |-> <<"h", "o", "s", "t">>, val |-> <<"y">>, cl |-> FALSE, clOK |-> FALSE, clN |-> 0],
      [raw |-> <<" ", "K", " ", ":", " ", "a", ":", "b", " ">>, colon |-> TRUE, lkey |-> <<"k">>, val |-> <<"a", ":", "b">>, cl |-> FALSE, clOK |-> FALSE, clN |-> 0],
      [raw |-> <<"j", "u", "n", "k">>, colon |-> FALSE, lkey |-> <<>>, val |-> <<>>, cl |-> FALSE, clOK |-> FALSE, clN |-> 0],
      [raw |-> <<"C", "o", "n", "t", "e", "n", "t", "-", "L", "e", "n", "g", "t", "h", ":", " ", "3">>, colon |-> TRUE, lkey |-> <<"c", "o", "n", "t", "e", "n", "t", "-", "l", "e", "n", "g", "t", "h">>, val |-> <<"3">>, cl |-> TRUE, clOK |-> TRUE, clN |-> 3],
      [raw |-> <<"c", "o", "n", "t", "e", "n", "t", "-", "l", "e", "n", "g", "t", "h", ":", "0">>, colon |-> TRUE, lkey |-> <<"c", "o", "n", "t", "e", "n", "t", "-", "l", "e", "n", "g", "t", "h">>, val |-> <<"0">>, cl |-> TRUE, clOK |-> TRUE, clN |-> 0],
      [raw |-> <<"C", "o", "n", "t", "e", "n", "t", "-", "L", "e", "n", "g", "t", "h", ":", " ", "-", "1">>, colon |-> TRUE, lkey |-> <<"c", "o", "n", "t", "e", "n", "t", "-", "l", "e", "n", "g", "t", "h">>, val |-> <<"-", "1">>, cl |-> TRUE, clOK |-> FALSE, clN |-> 0],
      [raw |-> <<"C", "O", "N", "T", "E", "N", "T", "-", "L", "E", "N", "G", "T", "H", ":", " ", "2", "x">>, colon |-> TRUE, lkey |-> <<"c", "o", "n", "t", "e", "n", "t", "-", "l", "e", "n", "g", "t", "h">>, val |-> <<"2", "x">>, cl |-> TRUE, clOK |-> FALSE, clN |-> 0],
      [raw |-> <<"C", "o", "n", "t", "e", "n", "t", "-", "L", "e", "n", "g", "t", "h", ":", " ", "1", "0", "4", "8", "5", "7", "6", "1">>, colon |-> TRUE, lkey |-> <<"c", "o", "n", "t", "e", "n", "t", "-", "l", "e", "n", "g", "t", "h">>, val |-> <<"1", "0", "4", "8", "5", "7", "6", "1">>, cl |-> TRUE, clOK |-> FALSE, clN |-> 0] }

\* the bytes a body is taken from
Filler == <<"a", "b", "\n", "c">>

HdrLists == UNION {[1..n -> HdrLines] : n \in 0..MaxHdrs}

\* the Content-Length line that counts, the last one: its index, 0 if none
LastCL(hdrs) == IF \E i \in 1..Len(hdrs) : hdrs[i].cl THEN SetMax({i \in 1..Len(hdrs) : hdrs[i].cl}) ELSE 0

\* the body sent: as long as the Content-Length line that counts says, and a
\* few bytes when that line is not an acceptable length
BodyFor(hdrs) == IF LastCL(hdrs) = 0 THEN <<>> ELSE IF hdrs[LastCL(hdrs)].clOK THEN Take(Filler, hdrs[LastCL(hdrs)].clN) ELSE Take(Filler, 2)

BuiltRequest(line, hdrs) ==
    [line |-> line, hdrs |-> hdrs, body |-> BodyFor(hdrs),
     bytes |-> line.raw \o CRLF \o HeaderBlock([i \in 1..Len(hdrs) |-> hdrs[i].raw]) \o CRLF \o BodyFor(hdrs)]

\* every header list after a request line of three tokens; after another
\* request line, which ends the parse, at most one header line
ParseInputs ==
    {BuiltRequest(line, hdrs) : line \in {l \in ReqLines : Len(l.toks) = 3}, hdrs \in HdrLists}
        \cup {BuiltRequest(line, hdrs) : line \in {l \in ReqLines : Len(l.toks) # 3}, hdrs \in {h \in HdrLists : Len(h) <= 1}}

NoInput == [line |-> [raw |-> <<>>, toks |-> <<>>], hdrs |-> <<>>, body |-> <<>>, bytes |-> <<>>]

(***************************************************************************)
(* Routes to register and paths to look up                                 *)
(***************************************************************************)
\* the number of registrations on one router
MaxRoutes == 3

RoutePaths == {<<"/">>, <<"/", "a">>, <<"/", "a", "/", "b">>}

RoutePrefixes == {<<>>, <<"/">>, <<"/", "a">>, <<"/", "z">>, <<"/", "a", "/">>}

LookupPaths == {<<>>, <<"/">>, <<"/", "a">>, <<"/", "a", "/", "b">>, <<"/", "a", "/", "c">>, <<"/", "z">>, <<"x">>}

RouteHandlers == {"handleRoot", "handleEcho"}

NoRegs == [exact |-> [p \in {} |-> ""], prefix |-> [p \in {} |-> ""]]

NoLookup == [done |-> FALSE, path |-> <<>>, handler |-> ""]

(***************************************************************************)
(* Requests and handler responses for processCommonHeaders                 *)
(***************************************************************************)
\* values of Accept-Encoding
AcceptEncodings ==
    { <<"g", "z", "i", "p">>, <<"i", "n", "v", "a", "l", "i", "d">>, <<"i", "n", "v", "a", "l", "i", "d", ",", " ", "g", "z", "i", "p">>, <<" ", "g", "z", "i", "p", " ", ",", "x">>, <<"x", ",", "g", "z", "i", "p", ",", "y">>, <<"g", "z", "i", "p", ",", "g", "z", "i", "p">>, <<"G", "Z", "I", "P">>, <<"g", "z", "i", "p", "x", ",", " ", "g", " ", "z", "i", "p">>, <<>> }

\* values of Connection
Connections == { S_close, <<"k", "e", "e", "p", "-", "a", "l", "i", "v", "e">> }

\* the header mappings of a parsed request: each header present or not
CommonHeaders ==
    { ae @@ cn : ae \in {EmptyHeaders} \cup {(ToLower(S_AcceptEncoding) :> v) : v \in AcceptEncodings},
                 cn \in {EmptyHeaders} \cup {(ToLower(S_Connection) :> v) : v \in Connections} }

CommonRequests == {[Method |-> S_GET, Path |-> P_root, Version |-> S_HTTP11, Headers |-> h, Body |-> <<>>] : h \in CommonHeaders}

HandlerBodies == { <<>>, B_ab, <<"0", "1", "2", "3", "4", "5", "6", "7", "8", "9">> }

\* the headers a handler sets for a body: none, a Content-Type, a
\* Content-Length of its own, or both
HandlerHeaders(body) ==
    { EmptyHeaders,
      (S_ContentType :> S_textPlain),
      (S_ContentLength :> Itoa(Len(body))),
      (S_ContentType :> S_textPlain) @@ (S_ContentLength :> Itoa(Len(body))) }

HandlerResponses ==
    UNION {{[StatusCode |-> st.code, StatusText |-> st.text, Headers |-> h, Body |-> body] : h \in HandlerHeaders(body)} :
              st \in {[code |-> StatusOK, text |-> T_OK], [code |-> StatusNotFound, text |-> T_NotFound]}, body \in HandlerBodies}

(***************************************************************************)
(* The state                                                               *)
(***************************************************************************)
VARIABLES
    router,     \* Server.router, the route table
    files,      \* the files under dirPath: full path -> content
    listener,   \* Server.listener: "open" or "closed"
    wg,         \* Server.wg, the counter of the wait group
    apc,        \* where main is in Server.Start; "returned": main has returned, the process is over
    aconn,      \* the connection Accept returned that has no worker yet, 0 if none
    ctx,        \* the context of main has been cancelled
    spc,        \* where the signal goroutine of main is
    lcloses,    \* number of calls of listener.Close()
    clients,    \* the connections the environment opens
    menu,       \* the entries of Catalog the clients send
    pin,        \* the single request a client was given to send, when it was given one
    regs,       \* the registrations made on router so far: path to handler, prefix to handler
    lookup,     \* the last Match on router: its path and the handler it returned
    hresp,      \* the response a handler was made to return, when it was made to
    pc,         \* where the worker of a connection is in handleConnection
    inbuf,      \* bytes the client sent that the server has not read yet
    rbuf,       \* what the bufio.Reader of the running parseRequest has read
    req,        \* the local req of handleConnection
    resp,       \* the local resp of handleConnection
    rd,         \* number of successful SetReadDeadline calls
    wd,         \* number of successful SetWriteDeadline calls
    lastw,      \* history: the latest call of writeResponse, its request and outcome
    cnt,        \* history: requests parsed, failed parses, handler calls, writeResponse calls
    exit,       \* history: why the worker returned, and what it had done
    cpend,      \* client: the unsent rest of the message being sent
    cq,         \* client: the entries of Catalog sent and not answered yet
    nsent,      \* client: the number of requests sent so far
    cclosed,    \* client: has closed its end
    cseq        \* client: never began a request before the answer to the previous

envVars == <<clients, menu, pin, regs, lookup, hresp>>

mainVars == <<apc, aconn, ctx, spc, lcloses>>

srvVars == <<router, files, listener, wg, mainVars, envVars>>

connVars == <<pc, inbuf, rbuf, req, resp, rd, wd, lastw, cnt, exit>>

cliVars == <<cpend, cq, nsent, cclosed, cseq>>

vars == <<router, files, listener, wg, apc, aconn, ctx, spc, lcloses, clients, menu, pin, regs, lookup, hresp, pc, inbuf, rbuf, req, resp, rd, wd, lastw, cnt, exit, cpend, cq, nsent, cclosed, cseq>>

NoResponse == NewResponse(0, <<>>, <<>>)

NoExit == [why |-> "", reqs |-> 0, calls |-> 0, writes |-> 0]

\* m: the entry of Catalog the write answers, 0 when the client awaits none
NoWrite == [m |-> 0, req |-> NoRequest, resp |-> NoResponse, n |-> 0, err |-> FALSE]

\* Server.RegisterRoutes on NewRouter(): the tables NewServer may build
RegisterRoutes ==
    LET r1 == RegisterExactRoute(NewRouter, P_root, "handleRoot")
    IN  UNION {RegisterPrefixRoute(RegisterExactRoute(r2, userAgentPrefix, "handleUserAgent"), filesPrefix, "handleFiles") : r2 \in RegisterPrefixRoute(r1, echoPrefix, "handleEcho")}

\* the state of the server after NewServer, before any connection
InitServer ==
    /\ router \in RegisterRoutes
    /\ files = [f \in {} |-> <<>>]
    /\ listener = "open"
    /\ wg = 0
    /\ apc = "select"
    /\ aconn = 0
    /\ ctx = FALSE
    /\ spc = "wait"
    /\ lcloses = 0
    /\ pc = [c \in ConnIds |-> "idle"]
    /\ inbuf = [c \in ConnIds |-> <<>>]
    /\ rbuf = [c \in ConnIds |-> <<>>]
    /\ req = [c \in ConnIds |-> NoRequest]
    /\ resp = [c \in ConnIds |-> NoResponse]
    /\ rd = [c \in ConnIds |-> 0]
    /\ wd = [c \in ConnIds |-> 0]
    /\ lastw = [c \in ConnIds |-> NoWrite]
    /\ cnt = [c \in ConnIds |-> [reqs |-> 0, fails |-> 0, calls |-> 0, writes |-> 0]]
    /\ exit = [c \in ConnIds |-> NoExit]
    /\ cpend = [c \in ConnIds |-> <<>>]
    /\ cq = [c \in ConnIds |-> <<>>]
    /\ nsent = [c \in ConnIds |-> 0]
    /\ cclosed = [c \in ConnIds |-> FALSE]
    /\ cseq = [c \in ConnIds |-> TRUE]

\* one connection, accepted, whose worker has just been started, and main
\* back in Accept; the client sends any requests of the catalog
Init ==
    /\ router \in RegisterRoutes
    /\ files = [f \in {} |-> <<>>]
    /\ listener = "open"
    /\ wg = 1
    /\ apc = "accept"
    /\ aconn = 0
    /\ ctx = FALSE
    /\ spc = "wait"
    /\ lcloses = 0
    /\ clients = {1}
    /\ menu = 1..Len(Catalog)
    /\ pin = NoInput
    /\ regs = NoRegs
    /\ lookup = NoLookup
    /\ hresp = NoResponse
    /\ pc = [c \in ConnIds |-> IF c = 1 THEN "deadline" ELSE "idle"]
    /\ inbuf = [c \in ConnIds |-> <<>>]
    /\ rbuf = [c \in ConnIds |-> <<>>]
    /\ req = [c \in ConnIds |-> NoRequest]
    /\ resp = [c \in ConnIds |-> NoResponse]
    /\ rd = [c \in ConnIds |-> 0]
    /\ wd = [c \in ConnIds |-> 0]
    /\ lastw = [c \in ConnIds |-> NoWrite]
    /\ cnt = [c \in ConnIds |-> [reqs |-> 0, fails |-> 0, calls |-> 0, writes |-> 0]]
    /\ exit = [c \in ConnIds |-> NoExit]
    /\ cpend = [c \in ConnIds |-> <<>>]
    /\ cq = [c \in ConnIds |-> <<>>]
    /\ nsent = [c \in ConnIds |-> 0]
    /\ cclosed = [c \in ConnIds |-> FALSE]
    /\ cseq = [c \in ConnIds |-> TRUE]


(***************************************************************************)
(* Server.Start: the acceptor                                              *)
(***************************************************************************)
\* the select at the top of the loop: return when ctx is done, else go on to Accept
StartSelect ==
    /\ apc = "select"
    /\ apc' = IF ctx THEN "returned" ELSE "accept"
    /\ UNCHANGED <<router, files, listener, wg, aconn, ctx, spc, lcloses, envVars, connVars, cliVars>>

\* s.listener.Accept() returns the connection of a client that is dialling
AcceptConn(c) ==
    /\ apc = "accept"
    /\ listener = "open"
    /\ c \in clients
    /\ pc[c] = "idle"
    /\ apc' = "spawn"
    /\ aconn' = c
    /\ UNCHANGED <<router, files, listener, wg, ctx, spc, lcloses, envVars, connVars, cliVars>>

\* s.listener.Accept() returns an error: the listener is closed
AcceptFails ==
    /\ apc = "accept"
    /\ listener = "closed"
    /\ apc' = "failed"
    /\ UNCHANGED <<router, files, listener, wg, aconn, ctx, spc, lcloses, envVars, connVars, cliVars>>

\* the select after a failed Accept: return when ctx is done, else log and continue
AcceptFailed ==
    /\ apc = "failed"
    /\ apc' = IF ctx THEN "returned" ELSE "select"
    /\ UNCHANGED <<router, files, listener, wg, aconn, ctx, spc, lcloses, envVars, connVars, cliVars>>

\* s.wg.Add(1); go s.handleConnection(conn)
Spawn ==
    /\ apc = "spawn"
    /\ wg' = wg + 1
    /\ pc' = [pc EXCEPT ![aconn] = "deadline"]
    /\ apc' = "select"
    /\ aconn' = 0
    /\ UNCHANGED <<router, files, listener, ctx, spc, lcloses, envVars>>
    /\ UNCHANGED <<inbuf, rbuf, req, resp, rd, wd, lastw, cnt, exit>>
    /\ UNCHANGED cliVars

(***************************************************************************)
(* main: the goroutine that waits for a signal, and Server.Shutdown        *)
(***************************************************************************)
\* <-sigChan; cancel()
Signal ==
    /\ apc # "returned"
    /\ spc = "wait"
    /\ ctx' = TRUE
    /\ spc' = "shutdown"
    /\ UNCHANGED <<router, files, listener, wg, apc, aconn, lcloses, envVars, connVars, cliVars>>

\* Shutdown: s.listener.Close()
ShutdownClose ==
    /\ apc # "returned"
    /\ spc = "shutdown"
    /\ listener' = "closed"
    /\ lcloses' = lcloses + 1
    /\ spc' = "waiting"
    /\ UNCHANGED <<router, files, wg, apc, aconn, ctx, envVars, connVars, cliVars>>

\* Shutdown: s.wg.Wait() returns, and Shutdown with it
ShutdownWait ==
    /\ apc # "returned"
    /\ spc = "waiting"
    /\ wg = 0
    /\ spc' = "done"
    /\ UNCHANGED <<router, files, listener, wg, apc, aconn, ctx, lcloses, envVars, connVars, cliVars>>

(***************************************************************************)
(* Server.handleConnection: the worker of one connection                   *)
(***************************************************************************)
\* the worker of c is at l, in a process whose main has not returned
At(c, l) == apc # "returned" /\ pc[c] = l

\* a worker whose return ends the process and with it every connection
Return_Fatal(c, why) ==
    /\ pc' = [d \in ConnIds |-> IF pc[d] = "idle" THEN "idle" ELSE "closed"]
    /\ wg' = 0
    /\ exit' = [exit EXCEPT ![c] = [why |-> why, reqs |-> cnt'[c].reqs, calls |-> cnt'[c].calls, writes |-> cnt'[c].writes]]

\* a worker that returns without wg.Done()
Return_NoDone(c, why) ==
    /\ pc' = [pc EXCEPT ![c] = "closed"]
    /\ wg' = wg
    /\ exit' = [exit EXCEPT ![c] = [why |-> why, reqs |-> cnt'[c].reqs, calls |-> cnt'[c].calls, writes |-> cnt'[c].writes]]

\* a return of handleConnection: the deferred conn.Close() and s.wg.Done()
Return(c, why) ==
    /\ pc' = [pc EXCEPT ![c] = "closed"]
    /\ wg' = wg - 1
    /\ exit' = [exit EXCEPT ![c] = [why |-> why, reqs |-> cnt'[c].reqs, calls |-> cnt'[c].calls, writes |-> cnt'[c].writes]]

\* the request asks to close the connection (the test after writeResponse)
ConnectionClose(r) == GetHeader(r, S_Connection).ok /\ GetHeader(r, S_Connection).val = S_close

\* a worker that goes on to the next request after a failed parse
AfterParseError_Continue == "deadline"

\* where the loop goes once parseRequest returned an error
AfterParseError == "closed"

\* a worker that never returns after a response
AfterWrite_NeverClose(r, werr) == "deadline"

\* a worker that handles the request again after its response
AfterWrite_Again(r, werr) == "route"

\* where the loop goes after writeResponse returned (werr: with an error)
AfterWrite(r, werr) == IF ConnectionClose(r) THEN "closed" ELSE "deadline"

\* a loop that sets the write deadline once, before its first request
SetDeadlines_WriteOnce(c) ==
    /\ At(c, "deadline")
    /\ rd' = [rd EXCEPT ![c] = @ + 1]
    /\ wd' = [wd EXCEPT ![c] = IF @ = 0 THEN 1 ELSE @]
    /\ pc' = [pc EXCEPT ![c] = "parse"]
    /\ rbuf' = [rbuf EXCEPT ![c] = <<>>]
    /\ UNCHANGED <<srvVars, inbuf, req, resp, lastw, cnt, exit, cliVars>>

\* top of the loop: both deadlines are set, or the worker returns
SetDeadlines(c) ==
    /\ At(c, "deadline")
    /\ rd' = [rd EXCEPT ![c] = @ + 1]
    /\ wd' = [wd EXCEPT ![c] = @ + 1]
    /\ pc' = [pc EXCEPT ![c] = "parse"]
    /\ rbuf' = [rbuf EXCEPT ![c] = <<>>]
    /\ UNCHANGED <<srvVars, inbuf, req, resp, lastw, cnt, exit, cliVars>>

SetReadDeadlineFails(c) ==
    /\ At(c, "deadline")
    /\ UNCHANGED <<router, files, listener, mainVars, envVars>>
    /\ UNCHANGED <<inbuf, rbuf, req, resp, rd, wd, lastw, cnt, cliVars>>
    /\ Return(c, "deadline")

SetWriteDeadlineFails(c) ==
    /\ At(c, "deadline")
    /\ rd' = [rd EXCEPT ![c] = @ + 1]
    /\ UNCHANGED <<router, files, listener, mainVars, envVars>>
    /\ UNCHANGED <<inbuf, rbuf, req, resp, wd, lastw, cnt, cliVars>>
    /\ Return(c, "deadline")

\* what the reader of parseRequest holds after its next read from the connection
Filled(c) == rbuf[c] \o inbuf[c]

\* parseRequest reads what has arrived and blocks again in a read
ParseMore(c) ==
    /\ At(c, "parse")
    /\ inbuf[c] # <<>>
    /\ parseRequest(Filled(c)).st = "more"
    /\ rbuf' = [rbuf EXCEPT ![c] = Filled(c)]
    /\ inbuf' = [inbuf EXCEPT ![c] = <<>>]
    /\ UNCHANGED <<srvVars, pc, req, resp, rd, wd, lastw, cnt, exit, cliVars>>

\* parseRequest returns a request; its reader, and what it holds, is dropped
ParseOk(c) ==
    /\ At(c, "parse")
    /\ inbuf[c] # <<>>
    /\ parseRequest(Filled(c)).st = "ok"
    /\ req' = [req EXCEPT ![c] = parseRequest(Filled(c)).req]
    /\ cnt' = [cnt EXCEPT ![c].reqs = @ + 1]
    /\ rbuf' = [rbuf EXCEPT ![c] = <<>>]
    /\ inbuf' = [inbuf EXCEPT ![c] = <<>>]
    /\ pc' = [pc EXCEPT ![c] = "route"]
    /\ UNCHANGED <<srvVars, resp, rd, wd, lastw, exit, cliVars>>

\* parseRequest returns an error of its own (request line, Content-Length)
ParseErr(c) ==
    /\ At(c, "parse")
    /\ inbuf[c] # <<>>
    /\ parseRequest(Filled(c)).st = "err"
    /\ rbuf' = [rbuf EXCEPT ![c] = <<>>]
    /\ inbuf' = [inbuf EXCEPT ![c] = <<>>]
    /\ UNCHANGED <<router, files, listener, mainVars, envVars>>
    /\ UNCHANGED <<req, resp, rd, wd, lastw, cliVars>>
    /\ cnt' = [cnt EXCEPT ![c].fails = @ + 1]
    /\ IF AfterParseError = "closed"
       THEN Return(c, parseRequest(Filled(c)).err)
       ELSE pc' = [pc EXCEPT ![c] = AfterParseError] /\ UNCHANGED <<wg, exit>>

\* a read of parseRequest returns io.EOF: the client has closed
ParseEOF(c) ==
    /\ At(c, "parse")
    /\ inbuf[c] = <<>>
    /\ cclosed[c]
    /\ rbuf' = [rbuf EXCEPT ![c] = <<>>]
    /\ UNCHANGED <<router, files, listener, mainVars, envVars>>
    /\ UNCHANGED <<inbuf, req, resp, rd, wd, lastw, cliVars>>
    /\ cnt' = [cnt EXCEPT ![c].fails = @ + 1]
    /\ IF AfterParseError = "closed"
       THEN Return(c, "EOF")
       ELSE pc' = [pc EXCEPT ![c] = AfterParseError] /\ UNCHANGED <<wg, exit>>

\* a connection on which no read deadline is ever in force
ReadDeadlinePassed_NoDeadline(c) == FALSE

\* the read deadline of the connection can pass only when one has been set
ReadDeadlinePassed(c) == rd[c] > 0

\* a read of parseRequest fails because the read deadline has passed
ParseTimeout(c) ==
    /\ At(c, "parse")
    /\ ReadDeadlinePassed(c)
    /\ rbuf' = [rbuf EXCEPT ![c] = <<>>]
    /\ UNCHANGED <<router, files, listener, mainVars, envVars>>
    /\ UNCHANGED <<inbuf, req, resp, rd, wd, lastw, cliVars>>
    /\ cnt' = [cnt EXCEPT ![c].fails = @ + 1]
    /\ IF AfterParseError = "closed"
       THEN Return(c, "timeout")
       ELSE pc' = [pc EXCEPT ![c] = AfterParseError] /\ UNCHANGED <<wg, exit>>

\* handler := s.router.Match(req.Path); resp := handler(req)
Route(c) ==
    /\ At(c, "route")
    /\ ~Panics(Match(router, req[c].Path), req[c])
    /\ \E io \in (IF Match(router, req[c].Path) = "handleFiles" THEN {"ok", "err"} ELSE {"ok"}) :
          LET h == Invoke(Match(router, req[c].Path), req[c], files, io)
          IN  /\ resp' = [resp EXCEPT ![c] = h.resp]
              /\ files' = h.fs
    /\ cnt' = [cnt EXCEPT ![c].calls = @ + 1]
    /\ pc' = [pc EXCEPT ![c] = "process"]
    /\ UNCHANGED <<router, listener, wg, mainVars, envVars>>
    /\ UNCHANGED <<inbuf, rbuf, req, rd, wd, lastw, exit, cliVars>>

\* processCommonHeaders(req, resp); its error return cannot happen
Process(c) ==
    /\ At(c, "process")
    /\ resp' = [resp EXCEPT ![c] = processCommonHeaders(req[c], resp[c])]
    /\ pc' = [pc EXCEPT ![c] = "write"]
    /\ UNCHANGED <<srvVars, inbuf, rbuf, req, rd, wd, lastw, cnt, exit, cliVars>>

\* the bytes of a failing conn.Write that did reach the connection
PartialLens(chunk) == {0, Len(chunk) \div 2}

\* the step after writeResponse: return on Connection: close, else loop
Written(c, chunks, werr) ==
    /\ lastw' = [lastw EXCEPT ![c] = [m |-> IF cq[c] = <<>> THEN 0 ELSE Head(cq[c]), req |-> req[c], resp |-> resp[c], n |-> Len(Concat(chunks)), err |-> werr]]
    /\ cnt' = [cnt EXCEPT ![c].writes = @ + 1]
    /\ cq' = [cq EXCEPT ![c] = IF @ = <<>> THEN @ ELSE Tail(@)]
    /\ UNCHANGED <<router, files, listener, mainVars, envVars>>
    /\ UNCHANGED <<inbuf, rbuf, req, resp, rd, wd, cpend, nsent, cclosed, cseq>>
    /\ IF AfterWrite(req[c], werr) = "closed"
       THEN Return(c, "close")
       ELSE pc' = [pc EXCEPT ![c] = AfterWrite(req[c], werr)] /\ UNCHANGED <<wg, exit>>

\* writeResponse(conn, resp) succeeds
WriteOk(c) ==
    /\ At(c, "write")
    /\ \E order \in Orders(DOMAIN resp[c].Headers) : Written(c, writeResponse(resp[c], order), FALSE)

\* writeResponse(conn, resp) fails in its j-th conn.Write
WriteFails(c) ==
    /\ At(c, "write")
    /\ \E order \in Orders(DOMAIN resp[c].Headers) :
          LET chunks == writeResponse(resp[c], order)
          IN  \E j \in 1..Len(chunks) : \E n \in PartialLens(chunks[j]) :
                 Written(c, Take(chunks, j - 1) \o (IF n > 0 THEN <<Take(chunks[j], n)>> ELSE <<>>), TRUE)

(***************************************************************************)
(* The client of a connection                                              *)
(***************************************************************************)
Connected(c) == pc[c] \notin {"idle", "closed"} /\ ~cclosed[c]

\* the client starts to send the next request, of at most most requests, and
\* sends a first fragment
ClientSends(c, most) ==
    /\ Connected(c)
    /\ cpend[c] = <<>>
    /\ nsent[c] < most
    /\ \E m \in menu : \E k \in FragLens(Catalog[m].bytes, Catalog[m].rest) :
          /\ inbuf' = [inbuf EXCEPT ![c] = @ \o Take(Catalog[m].bytes, k)]
          /\ cpend' = [cpend EXCEPT ![c] = Drop(Catalog[m].bytes, k)]
          /\ cq' = [cq EXCEPT ![c] = Append(@, m)]
    /\ nsent' = [nsent EXCEPT ![c] = @ + 1]
    /\ cseq' = [cseq EXCEPT ![c] = @ /\ cq[c] = <<>>]
    /\ UNCHANGED <<srvVars, pc, rbuf, req, resp, rd, wd, lastw, cnt, exit, cclosed>>

\* a client that sends up to MaxReqs requests
ClientStart(c) ==
    /\ ClientSends(c, MaxReqs)

\* a client that sends one request
ClientOnce(c) ==
    /\ ClientSends(c, 1)

\* the client sends the rest of the request it has begun
ClientContinue(c) ==
    /\ Connected(c)
    /\ cpend[c] # <<>>
    /\ inbuf' = [inbuf EXCEPT ![c] = @ \o cpend[c]]
    /\ cpend' = [cpend EXCEPT ![c] = <<>>]
    /\ UNCHANGED <<srvVars, pc, rbuf, req, resp, rd, wd, lastw, cnt, exit, cq, nsent, cclosed, cseq>>

\* the client closes its end of the connection
ClientClose(c) ==
    /\ Connected(c)
    /\ cclosed' = [cclosed EXCEPT ![c] = TRUE]
    /\ cpend' = [cpend EXCEPT ![c] = <<>>]
    /\ UNCHANGED <<srvVars, connVars, cq, nsent, cseq>>

Next ==
    \/ \E c \in ConnIds : SetDeadlines(c)
    \/ \E c \in ConnIds : SetReadDeadlineFails(c)
    \/ \E c \in ConnIds : SetWriteDeadlineFails(c)
    \/ \E c \in ConnIds : ParseMore(c)
    \/ \E c \in ConnIds : ParseOk(c)
    \/ \E c \in ConnIds : ParseErr(c)
    \/ \E c \in ConnIds : ParseEOF(c)
    \/ \E c \in ConnIds : ParseTimeout(c)
    \/ \E c \in ConnIds : Route(c)
    \/ \E c \in ConnIds : Process(c)
    \/ \E c \in ConnIds : WriteOk(c)
    \/ \E c \in ConnIds : WriteFails(c)
    \/ \E c \in ConnIds : ClientStart(c)
    \/ \E c \in ConnIds : ClientContinue(c)
    \/ \E c \in ConnIds : ClientClose(c)

Spec == Init /\ [][Next]_vars

(***************************************************************************)
(* The whole process: main with its signal goroutine, Start, and a worker  *)
(* and a client for each of two connections                                *)
(***************************************************************************)
\* the entries of Catalog the clients of the whole process send, one request
\* each: a request with Connection: close and a malformed one, both sent
\* whole, so that ParseMore and ClientContinue are never enabled
ServerMenu == {3, 7}

InitProcess ==
    /\ InitServer
    /\ clients = {1, 2}
    /\ menu = ServerMenu
    /\ pin = NoInput
    /\ regs = NoRegs
    /\ lookup = NoLookup
    /\ hresp = NoResponse

NextProcess ==
    \/ StartSelect
    \/ \E c \in ConnIds : AcceptConn(c)
    \/ AcceptFails
    \/ AcceptFailed
    \/ Spawn
    \/ Signal
    \/ ShutdownClose
    \/ ShutdownWait
    \/ \E c \in ConnIds : SetDeadlines(c)
    \/ \E c \in ConnIds : SetReadDeadlineFails(c)
    \/ \E c \in ConnIds : SetWriteDeadlineFails(c)
    \/ \E c \in ConnIds : ParseOk(c)
    \/ \E c \in ConnIds : ParseErr(c)
    \/ \E c \in ConnIds : ParseEOF(c)
    \/ \E c \in ConnIds : ParseTimeout(c)
    \/ \E c \in ConnIds : Route(c)
    \/ \E c \in ConnIds : Process(c)
    \/ \E c \in ConnIds : WriteOk(c)
    \/ \E c \in ConnIds : WriteFails(c)
    \/ \E c \in ConnIds : ClientOnce(c)
    \/ \E c \in ConnIds : ClientClose(c)

SpecProcess == InitProcess /\ [][NextProcess]_vars

(***************************************************************************)
(* The server with no signal: connections that stay open after a response  *)
(* or never complete a request.  A blocked read returns when the read      *)
(* deadline set at the top of the loop passes, hence the fairness of       *)
(* ParseTimeout.                                                           *)
(***************************************************************************)
IdleMenu == {1, 4}

InitIdle ==
    /\ InitServer
    /\ clients = {1, 2}
    /\ menu = IdleMenu
    /\ pin = NoInput
    /\ regs = NoRegs
    /\ lookup = NoLookup
    /\ hresp = NoResponse

NextIdle ==
    \/ StartSelect
    \/ \E c \in ConnIds : AcceptConn(c)
    \/ Spawn
    \/ \E c \in ConnIds : SetDeadlines(c)
    \/ \E c \in ConnIds : SetReadDeadlineFails(c)
    \/ \E c \in ConnIds : SetWriteDeadlineFails(c)
    \/ \E c \in ConnIds : ParseMore(c)
    \/ \E c \in ConnIds : ParseOk(c)
    \/ \E c \in ConnIds : ParseEOF(c)
    \/ \E c \in ConnIds : ParseTimeout(c)
    \/ \E c \in ConnIds : Route(c)
    \/ \E c \in ConnIds : Process(c)
    \/ \E c \in ConnIds : WriteOk(c)
    \/ \E c \in ConnIds : WriteFails(c)
    \/ \E c \in ConnIds : ClientOnce(c)
    \/ \E c \in ConnIds : ClientContinue(c)
    \/ \E c \in ConnIds : ClientClose(c)

SpecIdle == InitIdle /\ [][NextIdle]_vars /\ \A c \in ConnIds : WF_vars(ParseTimeout(c))

(***************************************************************************)
(* parseRequest on single built requests: one connection whose worker is   *)
(* in its first parseRequest and whose client sends the request in         *)
(* fragments                                                               *)
(***************************************************************************)
InitParse ==
    /\ router \in RegisterRoutes
    /\ files = [f \in {} |-> <<>>]
    /\ listener = "open"
    /\ wg = 1
    /\ apc = "accept"
    /\ aconn = 0
    /\ ctx = FALSE
    /\ spc = "wait"
    /\ lcloses = 0
    /\ clients = {1}
    /\ menu = {}
    /\ pin \in ParseInputs
    /\ regs = NoRegs
    /\ lookup = NoLookup
    /\ hresp = NoResponse
    /\ pc = [c \in ConnIds |-> IF c = 1 THEN "parse" ELSE "idle"]
    /\ inbuf = [c \in ConnIds |-> <<>>]
    /\ rbuf = [c \in ConnIds |-> <<>>]
    /\ req = [c \in ConnIds |-> NoRequest]
    /\ resp = [c \in ConnIds |-> NoResponse]
    /\ rd = [c \in ConnIds |-> IF c = 1 THEN 1 ELSE 0]
    /\ wd = [c \in ConnIds |-> IF c = 1 THEN 1 ELSE 0]
    /\ lastw = [c \in ConnIds |-> NoWrite]
    /\ cnt = [c \in ConnIds |-> [reqs |-> 0, fails |-> 0, calls |-> 0, writes |-> 0]]
    /\ exit = [c \in ConnIds |-> NoExit]
    /\ cpend = [c \in ConnIds |-> IF c = 1 THEN pin.bytes ELSE <<>>]
    /\ cq = [c \in ConnIds |-> <<>>]
    /\ nsent = [c \in ConnIds |-> IF c = 1 THEN 1 ELSE 0]
    /\ cclosed = [c \in ConnIds |-> FALSE]
    /\ cseq = [c \in ConnIds |-> TRUE]

\* the client sends the next FragSize bytes of the request it has begun
ClientFragment(c) ==
    /\ Connected(c)
    /\ Len(cpend[c]) > FragSize
    /\ inbuf' = [inbuf EXCEPT ![c] = @ \o Take(cpend[c], FragSize)]
    /\ cpend' = [cpend EXCEPT ![c] = Drop(@, FragSize)]
    /\ UNCHANGED <<srvVars, pc, rbuf, req, resp, rd, wd, lastw, cnt, exit, cq, nsent, cclosed, cseq>>

NextParse ==
    \/ \E c \in ConnIds : ClientFragment(c)
    \/ \E c \in ConnIds : ClientContinue(c)
    \/ \E c \in ConnIds : ParseMore(c)
    \/ \E c \in ConnIds : ParseOk(c)
    \/ \E c \in ConnIds : ParseErr(c)

SpecParse == InitParse /\ [][NextParse]_vars


(***************************************************************************)
(* Properties of the connection worker                                     *)
(***************************************************************************)
\* the request carries Connection: close, read from the stored headers
HasClose(r) == ToLower(S_Connection) \in DOMAIN r.Headers /\ r.Headers[ToLower(S_Connection)] = S_close

\* the worker has returned and has done nothing since
Ended(c) == pc[c] = "closed" /\ exit[c].reqs = cnt[c].reqs /\ exit[c].calls = cnt[c].calls /\ exit[c].writes = cnt[c].writes

\* the reasons of a return that come from a failed parseRequest
ParseFailures == {"EOF", "timeout", "invalid request line", "invalid Content-Length", "negative Content-Length", "Content-Length too large"}

\* C1: keep-alive. On a connection whose client sends each request only
\* after the answer to the previous one, every response written answers
\* the request the client is waiting for with a status of that request's
\* handler, and after a response to a request without Connection: close
\* has been written the worker has not returned because of a close.
KeepAliveSequential ==
    \A c \in ConnIds : (cseq[c] /\ cnt[c].writes > 0) =>
        /\ lastw[c].m # 0
        /\ lastw[c].resp.StatusCode \in Catalog[lastw[c].m].status
        /\ (~Catalog[lastw[c].m].close => ~(pc[c] = "closed" /\ exit[c].why = "close"))

\* C2: a request with Connection: close is answered with Connection: close
\* and the worker returns after that response: nothing more is parsed,
\* handled or written on the connection.
CloseHonoured ==
    \A c \in ConnIds : (cnt[c].writes > 0 /\ HasClose(lastw[c].req)) =>
        /\ S_Connection \in DOMAIN lastw[c].resp.Headers
        /\ lastw[c].resp.Headers[S_Connection] = S_close
        /\ exit[c].why = "close"
        /\ Ended(c)

\* a second request, with Connection: close, has been answered
CloseHonouredWitness == \E c \in ConnIds : cnt[c].writes = 2 /\ HasClose(lastw[c].req) /\ pc[c] = "closed"

\* C3: once writeResponse has returned an error the worker has returned:
\* nothing more is parsed, handled or written on the connection.
WriteFailureCloses == \A c \in ConnIds : (cnt[c].writes > 0 /\ lastw[c].err) => Ended(c)

\* C4: a failed parseRequest ends the worker at once: the connection is
\* closed, no handler ran and no response was written for the failed parse
\* (handler calls and writes both equal the number of parsed requests),
\* and nothing happens on the connection afterwards.
ParseFailureClosesSilently ==
    \A c \in ConnIds : cnt[c].fails > 0 =>
        /\ exit[c].why \in ParseFailures
        /\ Ended(c)
        /\ cnt[c].fails = 1
        /\ cnt[c].calls = cnt[c].reqs
        /\ cnt[c].writes = cnt[c].reqs

\* a malformed request line after a request that was served
ParseFailureWitness == \E c \in ConnIds : exit[c].why = "invalid request line" /\ cnt[c].writes > 0 /\ pc[c] = "closed"

(***************************************************************************)
(* The Router on its own: routes registered in any order, paths looked up  *)
(***************************************************************************)
InitRouter ==
    /\ router = NewRouter
    /\ files = [f \in {} |-> <<>>]
    /\ listener = "open"
    /\ wg = 0
    /\ apc = "select"
    /\ aconn = 0
    /\ ctx = FALSE
    /\ spc = "wait"
    /\ lcloses = 0
    /\ clients = {}
    /\ menu = {}
    /\ pin = NoInput
    /\ regs = NoRegs
    /\ lookup = NoLookup
    /\ hresp = NoResponse
    /\ pc = [c \in ConnIds |-> "idle"]
    /\ inbuf = [c \in ConnIds |-> <<>>]
    /\ rbuf = [c \in ConnIds |-> <<>>]
    /\ req = [c \in ConnIds |-> NoRequest]
    /\ resp = [c \in ConnIds |-> NoResponse]
    /\ rd = [c \in ConnIds |-> 0]
    /\ wd = [c \in ConnIds |-> 0]
    /\ lastw = [c \in ConnIds |-> NoWrite]
    /\ cnt = [c \in ConnIds |-> [reqs |-> 0, fails |-> 0, calls |-> 0, writes |-> 0]]
    /\ exit = [c \in ConnIds |-> NoExit]
    /\ cpend = [c \in ConnIds |-> <<>>]
    /\ cq = [c \in ConnIds |-> <<>>]
    /\ nsent = [c \in ConnIds |-> 0]
    /\ cclosed = [c \in ConnIds |-> FALSE]
    /\ cseq = [c \in ConnIds |-> TRUE]

Registered == Cardinality(DOMAIN regs.exact) + Cardinality(DOMAIN regs.prefix)

\* router.RegisterExactRoute(path, handler) on a path not registered yet
RegisterExact ==
    /\ Registered < MaxRoutes
    /\ \E path \in RoutePaths \ DOMAIN regs.exact, handler \in RouteHandlers :
          /\ router' = RegisterExactRoute(router, path, handler)
          /\ regs' = [regs EXCEPT !.exact = (path :> handler) @@ @]
    /\ lookup' = NoLookup
    /\ UNCHANGED <<files, listener, wg, mainVars, clients, menu, pin, hresp, connVars, cliVars>>

\* router.RegisterPrefixRoute(prefix, handler) on a prefix not registered yet
RegisterPrefix ==
    /\ Registered < MaxRoutes
    /\ \E prefix \in RoutePrefixes \ DOMAIN regs.prefix, handler \in RouteHandlers :
          /\ router' \in RegisterPrefixRoute(router, prefix, handler)
          /\ regs' = [regs EXCEPT !.prefix = (prefix :> handler) @@ @]
    /\ lookup' = NoLookup
    /\ UNCHANGED <<files, listener, wg, mainVars, clients, menu, pin, hresp, connVars, cliVars>>

\* router.Match(path)
MatchPath ==
    /\ \E path \in LookupPaths : lookup' = [done |-> TRUE, path |-> path, handler |-> Match(router, path)]
    /\ UNCHANGED <<router, files, listener, wg, mainVars, clients, menu, pin, regs, hresp, connVars, cliVars>>

NextRouter == RegisterExact \/ RegisterPrefix \/ MatchPath

SpecRouter == InitRouter /\ [][NextRouter]_vars

(***************************************************************************)
(* processCommonHeaders and writeResponse on one connection whose handler  *)
(* has just returned                                                       *)
(***************************************************************************)
InitCommon ==
    /\ router \in RegisterRoutes
    /\ files = [f \in {} |-> <<>>]
    /\ listener = "open"
    /\ wg = 1
    /\ apc = "accept"
    /\ aconn = 0
    /\ ctx = FALSE
    /\ spc = "wait"
    /\ lcloses = 0
    /\ clients = {1}
    /\ menu = {}
    /\ pin = NoInput
    /\ regs = NoRegs
    /\ lookup = NoLookup
    /\ hresp \in HandlerResponses
    /\ pc = [c \in ConnIds |-> IF c = 1 THEN "process" ELSE "idle"]
    /\ inbuf = [c \in ConnIds |-> <<>>]
    /\ rbuf = [c \in ConnIds |-> <<>>]
    /\ \E r \in CommonRequests : req = [c \in ConnIds |-> IF c = 1 THEN r ELSE NoRequest]
    /\ resp = [c \in ConnIds |-> IF c = 1 THEN hresp ELSE NoResponse]
    /\ rd = [c \in ConnIds |-> IF c = 1 THEN 1 ELSE 0]
    /\ wd = [c \in ConnIds |-> IF c = 1 THEN 1 ELSE 0]
    /\ lastw = [c \in ConnIds |-> NoWrite]
    /\ cnt = [c \in ConnIds |-> IF c = 1 THEN [reqs |-> 1, fails |-> 0, calls |-> 1, writes |-> 0] ELSE [reqs |-> 0, fails |-> 0, calls |-> 0, writes |-> 0]]
    /\ exit = [c \in ConnIds |-> NoExit]
    /\ cpend = [c \in ConnIds |-> <<>>]
    /\ cq = [c \in ConnIds |-> <<>>]
    /\ nsent = [c \in ConnIds |-> IF c = 1 THEN 1 ELSE 0]
    /\ cclosed = [c \in ConnIds |-> FALSE]
    /\ cseq = [c \in ConnIds |-> TRUE]

NextCommon ==
    \/ \E c \in ConnIds : Process(c)
    \/ \E c \in ConnIds : WriteOk(c)

SpecCommon == InitCommon /\ [][NextCommon]_vars

(***************************************************************************)
(* writeResponse on its own: responses whose bytes fit the buffer of the    *)
(* bufio.Writer, fill it exactly, or exceed it                              *)
(***************************************************************************)
\* a body of n bytes
BodyOf(n) == [i \in 1..n |-> "a"]

\* body lengths around the size of the buffer
WrittenBodyLens == {0, Len(B_ab), BufSize \div 2, BufSize, BufSize + 1}

\* responses as they are after processCommonHeaders
WrittenResponses ==
    UNION {{[StatusCode |-> st.code, StatusText |-> st.text, Headers |-> h, Body |-> BodyOf(n)] :
               h \in IF n = 0 THEN {EmptyHeaders}
                     ELSE {(S_ContentLength :> Itoa(n)), (S_ContentType :> S_textPlain) @@ (S_ContentLength :> Itoa(n))}} :
              st \in {[code |-> StatusOK, text |-> T_OK], [code |-> StatusNotFound, text |-> T_NotFound]}, n \in WrittenBodyLens}

InitWrite ==
    /\ router \in RegisterRoutes
    /\ files = [f \in {} |-> <<>>]
    /\ listener = "open"
    /\ wg = 1
    /\ apc = "accept"
    /\ aconn = 0
    /\ ctx = FALSE
    /\ spc = "wait"
    /\ lcloses = 0
    /\ clients = {1}
    /\ menu = {}
    /\ pin = NoInput
    /\ regs = NoRegs
    /\ lookup = NoLookup
    /\ hresp \in WrittenResponses
    /\ pc = [c \in ConnIds |-> IF c = 1 THEN "write" ELSE "idle"]
    /\ inbuf = [c \in ConnIds |-> <<>>]
    /\ rbuf = [c \in ConnIds |-> <<>>]
    /\ \E r \in CommonRequests : req = [c \in ConnIds |-> IF c = 1 THEN r ELSE NoRequest]
    /\ resp = [c \in ConnIds |-> IF c = 1 THEN hresp ELSE NoResponse]
    /\ rd = [c \in ConnIds |-> IF c = 1 THEN 1 ELSE 0]
    /\ wd = [c \in ConnIds |-> IF c = 1 THEN 1 ELSE 0]
    /\ lastw = [c \in ConnIds |-> NoWrite]
    /\ cnt = [c \in ConnIds |-> IF c = 1 THEN [reqs |-> 1, fails |-> 0, calls |-> 1, writes |-> 0] ELSE [reqs |-> 0, fails |-> 0, calls |-> 0, writes |-> 0]]
    /\ exit = [c \in ConnIds |-> NoExit]
    /\ cpend = [c \in ConnIds |-> <<>>]
    /\ cq = [c \in ConnIds |-> <<>>]
    /\ nsent = [c \in ConnIds |-> IF c = 1 THEN 1 ELSE 0]
    /\ cclosed = [c \in ConnIds |-> FALSE]
    /\ cseq = [c \in ConnIds |-> TRUE]

NextWrite ==
    \/ \E c \in ConnIds : WriteOk(c)
    \/ \E c \in ConnIds : WriteFails(c)

SpecWrite == InitWrite /\ [][NextWrite]_vars

(***************************************************************************)
(* Dispatch on its own: the routes of RegisterRoutes, requests with paths  *)
(* at and around the registered prefixes                                   *)
(***************************************************************************)
DispatchPaths ==
    { <<>>, P_root, <<"/", "e">>, <<"/", "e", "c", "h", "o">>, echoPrefix, echoPrefix \o <<"x">>,
      <<"/", "e", "c", "h", "o", "x">>, <<"/", "f", "i", "l", "e", "s">>, filesPrefix, P_file,
      <<"/", "f", "i", "l", "e", "s", "x">>, userAgentPrefix, userAgentPrefix \o <<"/">>,
      <<"e", "c", "h", "o", "/">>, <<"f", "i", "l", "e", "s", "/">>, <<"/", "x">> }

\* the Accept-Encoding header of a dispatched request: absent, or one that
\* names gzip, or one that does not
DispatchHeaders ==
    {EmptyHeaders} \cup {(ToLower(S_AcceptEncoding) :> v) :
        v \in {S_gzip, <<"i", "n", "v", "a", "l", "i", "d">>, <<"b", "r", ",", " ", "g", "z", "i", "p">>}}

DispatchRequests ==
    {[Method |-> m, Path |-> p, Version |-> S_HTTP11, Headers |-> h, Body |-> <<>>] :
        m \in {S_GET, S_POST}, p \in DispatchPaths, h \in DispatchHeaders}

InitDispatch ==
    /\ router \in RegisterRoutes
    /\ files = [f \in {} |-> <<>>]
    /\ listener = "open"
    /\ wg = 1
    /\ apc = "accept"
    /\ aconn = 0
    /\ ctx = FALSE
    /\ spc = "wait"
    /\ lcloses = 0
    /\ clients = {1}
    /\ menu = {}
    /\ pin = NoInput
    /\ regs = NoRegs
    /\ lookup = NoLookup
    /\ hresp = NoResponse
    /\ pc = [c \in ConnIds |-> IF c = 1 THEN "route" ELSE "idle"]
    /\ inbuf = [c \in ConnIds |-> <<>>]
    /\ rbuf = [c \in ConnIds |-> <<>>]
    /\ \E r \in DispatchRequests : req = [c \in ConnIds |-> IF c = 1 THEN r ELSE NoRequest]
    /\ resp = [c \in ConnIds |-> NoResponse]
    /\ rd = [c \in ConnIds |-> IF c = 1 THEN 1 ELSE 0]
    /\ wd = [c \in ConnIds |-> IF c = 1 THEN 1 ELSE 0]
    /\ lastw = [c \in ConnIds |-> NoWrite]
    /\ cnt = [c \in ConnIds |-> IF c = 1 THEN [reqs |-> 1, fails |-> 0, calls |-> 0, writes |-> 0] ELSE [reqs |-> 0, fails |-> 0, calls |-> 0, writes |-> 0]]
    /\ exit = [c \in ConnIds |-> NoExit]
    /\ cpend = [c \in ConnIds |-> <<>>]
    /\ cq = [c \in ConnIds |-> <<>>]
    /\ nsent = [c \in ConnIds |-> IF c = 1 THEN 1 ELSE 0]
    /\ cclosed = [c \in ConnIds |-> FALSE]
    /\ cseq = [c \in ConnIds |-> TRUE]

NextDispatch ==
    \/ \E c \in ConnIds : Route(c)
    \/ \E c \in ConnIds : Process(c)
    \/ \E c \in ConnIds : WriteOk(c)

SpecDispatch == InitDispatch /\ [][NextDispatch]_vars

(***************************************************************************)
(* Properties of parseRequest on built requests (SpecParse)                *)
(***************************************************************************)
\* the client has sent the whole request and the worker has taken every byte
Delivered(c) == cpend[c] = <<>> /\ inbuf[c] = <<>>

ThreeTokens == Len(pin.line.toks) = 3

CLLines == {i \in 1..Len(pin.hdrs) : pin.hdrs[i].cl}

\* the request has one Content-Length line, with an acceptable value
OneGoodCL == Cardinality(CLLines) = 1 /\ pin.hdrs[LastCL(pin.hdrs)].clOK

\* the request has one Content-Length line, with an unacceptable value
OneBadCL == Cardinality(CLLines) = 1 /\ ~pin.hdrs[LastCL(pin.hdrs)].clOK

\* the header mapping the lines of the request describe: every key of a line
\* with a colon, with the value of the last such line
ExpectedHeaders ==
    [k \in {pin.hdrs[i].lkey : i \in {j \in 1..Len(pin.hdrs) : pin.hdrs[j].colon}} |->
        pin.hdrs[SetMax({i \in 1..Len(pin.hdrs) : pin.hdrs[i].colon /\ pin.hdrs[i].lkey = k})].val]

\* C5: a request with a Content-Length line of value n in 0..10 MiB, in any
\* letter case, and n body bytes parses without error, and the Request it
\* returns carries exactly those n bytes as its body, however the bytes were
\* fragmented; the body is non-empty iff n > 0.
BodyReadExactly ==
    (ThreeTokens /\ OneGoodCL) =>
        /\ pc[1] # "closed"
        /\ pc[1] = "route" =>
            /\ req[1].Body = pin.body
            /\ Len(req[1].Body) = pin.hdrs[LastCL(pin.hdrs)].clN
            /\ (req[1].Body # <<>>) <=> (pin.hdrs[LastCL(pin.hdrs)].clN > 0)

\* C6: a request whose Content-Length value is not an integer, is negative
\* or exceeds 10 MiB never parses successfully: parseRequest returns no
\* Request, and once the request is delivered it has failed with the
\* Content-Length error.
BadContentLengthFails ==
    (ThreeTokens /\ OneBadCL) =>
        /\ pc[1] # "route"
        /\ req[1] = NoRequest
        /\ Delivered(1) => (pc[1] = "closed" /\ exit[1].why \in {"invalid Content-Length", "negative Content-Length", "Content-Length too large"})

LineBytes == Take(pin.bytes, Len(pin.line.raw) + Len(CRLF))

\* C18: when the request line has fewer or more than three tokens,
\* parseRequest fails with "invalid request line" and no Request as soon as
\* the line has arrived, having consumed the request line only; the worker
\* counts no request, calls no handler, writes nothing, and returns.
MalformedRequestLineFails ==
    ~ThreeTokens =>
        /\ parseRequest(pin.bytes) =
              [st |-> "err", err |-> "invalid request line", req |-> NoRequest, used |-> Len(LineBytes)]
        /\ parseRequest(LineBytes) = parseRequest(pin.bytes)
        /\ \A c \in clients :
              /\ cnt[c].reqs = 0 /\ cnt[c].calls = 0 /\ cnt[c].writes = 0
              /\ req[c] = NoRequest /\ resp[c] = NoResponse
              /\ pc[c] \in {"parse", "closed"}
              /\ pc[c] = "closed" => exit[c].why = "invalid request line"
              /\ (pc[c] = "parse" /\ Delivered(c)) => cnt[c].fails = 0

\* a request line of four tokens followed by a header line has made the
\* worker return
MalformedRequestLineWitness ==
    /\ Len(pin.line.toks) = 4 /\ Len(pin.hdrs) = 1
    /\ pc[1] = "closed" /\ exit[1].why = "invalid request line" /\ cnt[1].fails = 1

(***************************************************************************)
(* Properties of Router.Match (SpecRouter)                                 *)
(***************************************************************************)
\* p is a literal prefix of path
IsPrefixOf(p, path) == Len(p) <= Len(path) /\ \A i \in 1..Len(p) : p[i] = path[i]

\* the registered prefixes that are literal prefixes of path
MatchingPrefixes(path) == {p \in DOMAIN regs.prefix : IsPrefixOf(p, path)}

\* C8: Match returns the handler registered for the path as an exact route
\* when there is one, whatever prefixes match; otherwise the handler of the
\* longest registered prefix that is a literal prefix of the path, whatever
\* the order of the registrations; otherwise the not-found handler.
MatchExactThenLongestPrefix ==
    lookup.done =>
        IF lookup.path \in DOMAIN regs.exact
        THEN lookup.handler = regs.exact[lookup.path]
        ELSE IF MatchingPrefixes(lookup.path) = {}
             THEN lookup.handler = "handleNotFound"
             ELSE \E p \in MatchingPrefixes(lookup.path) :
                     /\ \A q \in MatchingPrefixes(lookup.path) : Len(q) <= Len(p)
                     /\ lookup.handler = regs.prefix[p]

\* a lookup on a router of three prefix routes, several of which match the
\* path, answered with the handler of the longest and not of a shorter one
MatchLongestPrefixWitness ==
    /\ lookup.done
    /\ lookup.path \notin DOMAIN regs.exact
    /\ Cardinality(MatchingPrefixes(lookup.path)) >= 2
    /\ Len(router.prefixRoutes) = 3
    /\ \E p, q \in MatchingPrefixes(lookup.path) :
          /\ Len(q) < Len(p)
          /\ regs.prefix[p] # regs.prefix[q]
          /\ lookup.handler = regs.prefix[p]

(***************************************************************************)
(* Properties of processCommonHeaders (SpecCommon)                         *)
(***************************************************************************)
\* processCommonHeaders has run on the response of connection 1
Processed == hresp # NoResponse /\ pc[1] # "process"

\* v, split at its commas, has a piece that is the word gzip in white space
NamesGzip(v) ==
    \E i \in 1..Len(v) : \E j \in i..Len(v) :
        /\ i = 1 \/ v[i - 1] = ","
        /\ j = Len(v) \/ v[j + 1] = ","
        /\ \A k \in i..j : v[k] # ","
        /\ \E a \in i..j :
              /\ a + 3 <= j
              /\ v[a] = "g" /\ v[a + 1] = "z" /\ v[a + 2] = "i" /\ v[a + 3] = "p"
              /\ \A k \in i..j : (k < a \/ k > a + 3) => v[k] \in {" ", "\t"}

\* the request of connection 1 accepts gzip
AcceptsGzip == ToLower(S_AcceptEncoding) \in DOMAIN req[1].Headers /\ NamesGzip(req[1].Headers[ToLower(S_AcceptEncoding)])

\* C9: when some comma-separated, trimmed token of Accept-Encoding is gzip
\* the handler's body is replaced by its gzip compression, once, and
\* Content-Encoding: gzip is set; when the header is absent or names no
\* supported encoding the body is the handler's and there is no
\* Content-Encoding header; in both cases the response goes on to be written.
CompressionNegotiated ==
    Processed =>
        /\ pc[1] # "closed" \/ exit[1].why = "close"
        /\ IF AcceptsGzip
           THEN /\ resp[1].Body = Gzip(hresp.Body)
                /\ S_ContentEncoding \in DOMAIN resp[1].Headers
                /\ resp[1].Headers[S_ContentEncoding] = S_gzip
           ELSE /\ resp[1].Body = hresp.Body
                /\ S_ContentEncoding \notin DOMAIN resp[1].Headers

\* a response compressed for a request whose first token is not supported
CompressionWitness ==
    /\ Processed
    /\ AcceptsGzip
    /\ ~HasPrefix(TrimSpace(req[1].Headers[ToLower(S_AcceptEncoding)]), S_gzip)
    /\ hresp.Body # <<>>
    /\ resp[1].Body = Gzip(hresp.Body)

InFlight(c) == pc[c] \in {"route", "process", "write"}

\* C11: on a connection at most one request is parsed and not yet answered;
\* while it is, the worker reads no byte of a next request; a request is
\* handled once, before its response is written; and the k-th response
\* written is the one to the k-th request parsed.
SequentialProcessing ==
    \A c \in ConnIds :
        /\ cnt[c].reqs = cnt[c].writes + (IF InFlight(c) THEN 1 ELSE 0)
        /\ cnt[c].calls = cnt[c].writes + (IF pc[c] \in {"process", "write"} THEN 1 ELSE 0)
        /\ rbuf[c] # <<>> => pc[c] = "parse"
        /\ (cnt[c].writes > 0 /\ ~InFlight(c)) => lastw[c].req = req[c]
        /\ (cnt[c].writes > 0 /\ InFlight(c)) => lastw[c].n >= 0

\* two requests answered on one connection whose client sent the second
\* before the answer to the first
SequentialWitness ==
    \E c \in ConnIds : cnt[c].writes = 2 /\ cnt[c].reqs = 2 /\ ~cseq[c] /\ ~lastw[c].err

\* C19: rd and wd count the deadlines set on the connection.  Whenever the
\* worker parses, both deadlines have been set once more than requests were
\* parsed before, so every parse follows a refresh of both; and a worker
\* that returned because setting a deadline failed had parsed, handled and
\* written nothing in that iteration: the failing call was the last thing it
\* did, after the read deadline at most.
DeadlinesRefreshed ==
    \A c \in ConnIds :
        /\ pc[c] = "parse" => (rd[c] = cnt[c].reqs + 1 /\ wd[c] = cnt[c].reqs + 1)
        /\ pc[c] \in {"route", "process", "write", "deadline"} => (rd[c] = cnt[c].reqs /\ wd[c] = cnt[c].reqs)
        /\ cnt[c].reqs + cnt[c].fails <= wd[c] /\ wd[c] <= rd[c]
        /\ (pc[c] = "closed" /\ exit[c].why = "deadline") =>
              /\ wd[c] = cnt[c].reqs /\ rd[c] \in {wd[c], wd[c] + 1}
              /\ cnt[c].fails = 0
              /\ cnt[c].calls = cnt[c].reqs /\ cnt[c].writes = cnt[c].reqs
              /\ rbuf[c] = <<>>

\* after one request was answered the read deadline was set again and
\* setting the write deadline failed
DeadlinesWitness ==
    \E c \in ConnIds :
        /\ pc[c] = "closed" /\ exit[c].why = "deadline"
        /\ exit[c].writes = 1 /\ rd[c] = 2 /\ wd[c] = 1 /\ inbuf[c] # <<>>

\* the requests the client of c has sent, or begun to send, that the worker
\* has not parsed yet
Unparsed(c) == IF InFlight(c) /\ cq[c] # <<>> THEN Tail(cq[c]) ELSE cq[c]

RECURSIVE BytesOf(_)
BytesOf(ms) == IF ms = <<>> THEN <<>> ELSE Catalog[Head(ms)].bytes \o BytesOf(Tail(ms))

\* C21: while the client of a connection is connected and the worker has
\* parsed every request so far without an error, the bytes it has still to read, followed by those the
\* client has still to send of a request it has begun, are exactly the bytes
\* of the requests not parsed yet: the parse of a request consumed the bytes
\* of that request (body included) and no more; and a request being handled
\* is the oldest one the client awaits an answer to.
StreamPosition ==
    \A c \in ConnIds :
        (pc[c] \in {"deadline", "parse", "route", "process", "write"} /\ cnt[c].fails = 0 /\ ~cclosed[c]) =>
            /\ Filled(c) \o cpend[c] = BytesOf(Unparsed(c))
            /\ InFlight(c) =>
                  /\ cq[c] # <<>>
                  /\ req[c].Method = Catalog[Head(cq[c])].method
                  /\ req[c].Path = Catalog[Head(cq[c])].path

\* the file that POST /files/f writes and GET /files/f reads
StoredFile == Join(dirPath, Drop(P_file, Len(filesPrefix)))

\* C24: once a POST /files/f has been answered 201 the file holds the body
\* the client sent with it; a GET /files/f answered 200 carries that body
\* (every POST of the clients sends the same body); and a request on
\* /files/f with another method is answered 405.
FileRoundTrip ==
    \A c \in ConnIds : cnt[c].writes > 0 =>
        LET w == lastw[c]
        IN  /\ (w.resp.StatusCode = StatusCreated /\ w.m # 0 /\ Catalog[w.m].method = S_POST) =>
                  /\ StoredFile \in DOMAIN files
                  /\ Catalog[w.m].body # <<>>
                  /\ files[StoredFile] = Catalog[w.m].body
            /\ (w.req.Method = S_GET /\ w.req.Path = P_file /\ w.resp.StatusCode = StatusOK) =>
                  w.resp.Body = B_ab
            /\ (w.req.Path = P_file /\ w.req.Method \notin {S_GET, S_POST}) =>
                  w.resp.StatusCode = StatusMethodNotAllowed

(***************************************************************************)
(* Properties of the process: main, the signal goroutine, Start, workers   *)
(* (SpecProcess)                                                           *)
(***************************************************************************)
\* the step is a failure of the worker of c: it returns on an error of a
\* deadline call or of parseRequest, or its writeResponse fails
FailureStep(c) ==
    \/ pc[c] # "closed" /\ pc'[c] = "closed" /\ exit'[c].why # "close"
    \/ cnt'[c].writes = cnt[c].writes + 1 /\ lastw'[c].err

\* C16: a step in which the worker of one connection fails changes nothing
\* of any other connection (its worker stays where it was, with its request,
\* response, buffers, deadlines and counters), of the route table, of the
\* files or of the acceptor.
FailuresAreLocal ==
    [][\A c \in ConnIds : FailureStep(c) =>
             /\ \A d \in ConnIds \ {c} :
                   /\ pc'[d] = pc[d] /\ req'[d] = req[d] /\ resp'[d] = resp[d]
                   /\ inbuf'[d] = inbuf[d] /\ rbuf'[d] = rbuf[d] /\ cnt'[d] = cnt[d]
                   /\ lastw'[d] = lastw[d] /\ exit'[d] = exit[d]
                   /\ rd'[d] = rd[d] /\ wd'[d] = wd[d]
             /\ router' = router /\ files' = files /\ listener' = listener
             /\ apc' = apc /\ aconn' = aconn /\ ctx' = ctx]_vars

\* a connection is answered while the worker of another connection has
\* returned on a malformed request
FailuresAreLocalWitness ==
    \E c \in ConnIds : \E d \in ConnIds \ {c} :
        /\ pc[c] = "closed" /\ exit[c].why \notin {"", "close", "EOF", "timeout", "deadline"}
        /\ cnt[d].writes = 1 /\ ~lastw[d].err /\ exit[d].reqs = 1
        /\ exit[c].calls = 0 /\ cnt[d].calls = 1

\* the connections whose worker has been started and has not returned
Running == {c \in ConnIds : pc[c] \notin {"idle", "closed"}}

\* C17: a closed connection stays closed and its worker reads, handles and
\* writes nothing more; the step that closes a connection (on whichever exit
\* path) decrements the wait group by one, and no other worker step changes
\* it, so the count is the number of running workers.
ClosedIsTerminal ==
    /\ [](wg = Cardinality(Running))
    /\ [][\A c \in ConnIds :
             /\ pc[c] = "closed" =>
                   /\ pc'[c] = "closed" /\ cnt'[c] = cnt[c] /\ exit'[c] = exit[c]
                   /\ req'[c] = req[c] /\ resp'[c] = resp[c] /\ lastw'[c] = lastw[c]
                   /\ rbuf'[c] = rbuf[c] /\ rd'[c] = rd[c] /\ wd'[c] = wd[c]
             /\ (pc[c] # "closed" /\ pc'[c] = "closed") =>
                   /\ wg' = wg - 1
                   /\ exit'[c].why \in {"close", "EOF", "timeout", "deadline", "invalid request line"}
                   /\ exit'[c].writes = cnt'[c].writes]_vars

\* both connections are closed, one after its response to a request with
\* Connection: close and one on an error, and the count is back to zero
ClosedIsTerminalWitness ==
    \E c \in ConnIds : \E d \in ConnIds \ {c} :
        /\ pc[c] = "closed" /\ exit[c].why = "close" /\ exit[c].writes = 1
        /\ pc[d] = "closed" /\ exit[d].why # "close"
        /\ wg = 0

\* C12: once Shutdown has returned, the count of the wait group is zero and
\* no worker is running or is started afterwards.
ShutdownDrained ==
    spc = "done" =>
        /\ wg = 0
        /\ \A c \in ConnIds : pc[c] \in {"idle", "closed"}

\* C13: main has not returned while a worker holds a request that it has
\* parsed and not answered yet.
MainWaitsForWorkers ==
    apc = "returned" => \A c \in ConnIds : ~InFlight(c)

\* C14: once the signal is handled (context cancelled and listener closed)
\* no worker is started, and the listener has been closed exactly once.
NoSpawnAfterSignal ==
    [][(ctx /\ listener = "closed") =>
          /\ wg' <= wg
          /\ \A c \in ConnIds : pc[c] = "idle" => pc'[c] = "idle"
          /\ lcloses = 1 /\ lcloses' = 1]_vars

(***************************************************************************)
(* Properties of idle connections (SpecIdle)                               *)
(***************************************************************************)
\* the worker of c returns because a read of parseRequest timed out
TimeoutStep(c) == pc[c] = "parse" /\ pc'[c] = "closed" /\ exit'[c].why = "timeout"

\* C15: a worker that waits for its (k+1)-th request either parses a complete
\* request or closes the connection with no further response written; and the
\* step that closes a connection on a read timeout writes nothing and leaves
\* every other connection, the route table and the acceptor as they were.
IdleTimeoutCloses ==
    /\ \A c \in ConnIds : \A k \in 0..MaxReqs :
          (pc[c] = "parse" /\ cnt[c].writes = k)
              ~> ((pc[c] = "closed" /\ cnt[c].writes = k /\ exit[c].writes = k) \/ cnt[c].reqs > k)
    /\ [][\A c \in ConnIds : TimeoutStep(c) =>
             /\ cnt'[c].writes = cnt[c].writes /\ lastw' = lastw
             /\ \A d \in ConnIds \ {c} :
                   /\ pc'[d] = pc[d] /\ req'[d] = req[d] /\ resp'[d] = resp[d]
                   /\ inbuf'[d] = inbuf[d] /\ rbuf'[d] = rbuf[d] /\ cnt'[d] = cnt[d]
             /\ apc' = apc /\ aconn' = aconn /\ listener' = listener /\ router' = router]_vars

\* a connection that was answered once, then stayed idle and was closed on
\* the read timeout while another connection is being served
IdleTimeoutWitness ==
    \E c \in ConnIds : \E d \in ConnIds \ {c} :
        /\ pc[c] = "closed" /\ exit[c].why = "timeout" /\ exit[c].writes = 1 /\ ~cclosed[c]
        /\ pc[d] \in {"parse", "route", "process", "write"}

(***************************************************************************)
(* Properties of writeResponse (SpecWrite)                                 *)
(***************************************************************************)
\* the bytes of the response, in the order writeResponse hands them over
WholeResponse(r, order) == Concat(Pieces(r, order))

\* C20: when a writeResponse came to its final Flush, no conn.Write had been
\* made and the buffer held the whole response (status line, headers, blank
\* line, body, in that order); so a writeResponse that failed has left on the
\* connection nothing but what its one failing write of the whole response
\* passed on.
BufferedThenFlushed ==
    \A c \in ConnIds :
        lastw[c] # NoWrite =>
            \A order \in Orders(DOMAIN lastw[c].resp.Headers) :
                /\ Buffered(lastw[c].resp, order).out = <<>>
                /\ Buffered(lastw[c].resp, order).buf = WholeResponse(lastw[c].resp, order)
                /\ lastw[c].err => lastw[c].n \in PartialLens(WholeResponse(lastw[c].resp, order))

(***************************************************************************)
(* Properties of the dispatch (SpecDispatch)                               *)
(***************************************************************************)
\* C22: with the routes of RegisterRoutes, a request that is handed to
\* handleEcho (handleFiles) has a path that starts with "/echo/"
\* ("/files/"), so the slice at the top of the handler is in range and the
\* handler does not panic; every request gets a response from its handler.
DispatchIndexSafe ==
    \A c \in ConnIds :
        /\ pc[c] = "route" =>
              LET h == Match(router, req[c].Path)
              IN  /\ h = "handleEcho" => IsPrefixOf(echoPrefix, req[c].Path)
                  /\ h = "handleFiles" => IsPrefixOf(filesPrefix, req[c].Path)
                  /\ ~Panics(h, req[c])
        /\ pc[c] \in {"process", "write"} => resp[c].StatusCode # 0

\* the shortest path handed to handleEcho, "/echo/", has been answered with
\* an empty body
DispatchWitness ==
    \E c \in ConnIds :
        /\ cnt[c].writes = 1 /\ lastw[c].req.Path = echoPrefix
        /\ lastw[c].resp.StatusCode = StatusOK /\ lastw[c].resp.Body = <<>>
        /\ S_ContentType \in DOMAIN lastw[c].resp.Headers

\* C23: processCommonHeaders leaves the status code and reason of the
\* handler's response as they are; and when the request's Accept-Encoding
\* lists gzip, the response that goes on to be written has Content-Encoding:
\* gzip, the gzip compression of the handler's body, which is not empty even
\* for an empty body, and a Content-Length that is the length of that
\* compressed body.
CompressedWhateverSize ==
    [][(pc[1] = "process" /\ pc'[1] = "write") =>
          /\ resp'[1].StatusCode = resp[1].StatusCode
          /\ resp'[1].StatusText = resp[1].StatusText
          /\ AcceptsGzip =>
                /\ S_ContentEncoding \in DOMAIN resp'[1].Headers
                /\ resp'[1].Headers[S_ContentEncoding] = S_gzip
                /\ resp'[1].Body = Gzip(resp[1].Body)
                /\ resp'[1].Body # <<>>
                /\ S_ContentLength \in DOMAIN resp'[1].Headers
                /\ resp'[1].Headers[S_ContentLength] = Itoa(Len(resp'[1].Body))]_vars

\* the 201 of a POST to /files/, whose handler body is empty, has been
\* written with a gzip body for a request that accepts gzip
CompressedEmptyWitness ==
    /\ cnt[1].writes = 1 /\ AcceptsGzip
    /\ lastw[1].resp.StatusCode = StatusCreated
    /\ lastw[1].resp.Body = Gzip(<<>>)
    /\ lastw[1].resp.Headers[S_ContentLength] = Itoa(Len(Gzip(<<>>)))

================================================================================
